---- MODULE Spec2Model ----
(***************************************************************************)
(* A model of the Graphiti Go client (client.go, types.go): construction   *)
(* of a Client from functional options, the request executor Client.do,    *)
(* the endpoint methods bound to it, and the JSON encoding of the request  *)
(* structures.                                                             *)
(***************************************************************************)
EXTENDS Integers, Sequences, FiniteSets, TLC

(***************************************************************************)
(* Bounds of the model.                                                    *)
(***************************************************************************)
\* longest option list passed to NewClient
MaxOpts == 3
\* number of Clients constructed one after the other in SpecNew
MaxClients == 2

(***************************************************************************)
(* Program constants.                                                      *)
(***************************************************************************)
\* client.go:41  Timeout: 30 * time.Second
DefaultTimeout == 30
\* unnamed/part_002:99  maxAttempts := 12
MaxAttempts == 12
\* unnamed/part_002:100  pollInterval := 5 * time.Second
PollInterval == 5

(***************************************************************************)
(* References to http.Client objects.  A reference is <<kind, n>>: the nil *)
(* pointer, an http.Client owned by the caller, or the http.Client that    *)
(* the n-th run of NewClient allocates.                                    *)
(***************************************************************************)
NilRef == <<"nil", 0>>
CallerRef == <<"caller", 1>>
DefaultRef(n) == <<"default", n>>

HTTPRefs == {CallerRef} \cup {DefaultRef(n) : n \in 1..MaxClients}

\* Timeout values a caller passes to WithTimeout (seconds).
TimeoutArgs == {5, 60}

\* The options a caller can build: WithTimeout(t), WithHTTPClient(h) with h
\* the caller's own http.Client or nil.
WithTimeout(t) == [opt |-> "WithTimeout", timeout |-> t, ref |-> NilRef]
WithHTTPClient(h) == [opt |-> "WithHTTPClient", timeout |-> 0, ref |-> h]

Options == {WithTimeout(t) : t \in TimeoutArgs}
             \cup {WithHTTPClient(h) : h \in {CallerRef, NilRef}}

SeqsUpTo(S, n) == UNION {[1..k -> S] : k \in 0..n}

OptionLists == SeqsUpTo(Options, MaxOpts)

\* Base URLs a caller passes: a well-formed one, the empty string, one
\* without a scheme and one net/url cannot parse.
GoodURL == "http://localhost:8000"
EmptyURL == ""
BadURL == "http://[::1"
NoSchemeURL == "api.example.com"
BaseURLs == {GoodURL, EmptyURL, NoSchemeURL, BadURL}

\* The heap before any Client is built: the caller's http.Client is a zero
\* value (Timeout 0, i.e. no timeout); the others are not allocated yet and
\* carry the placeholder 0.
InitHeap == [r \in HTTPRefs |-> 0]

(***************************************************************************)
(* NewClient and the options (client.go:23-50).  A construction state is   *)
(* the Client being built, the heap of http.Client timeouts and a flag     *)
(* telling that an option dereferenced a nil httpClient.                   *)
(***************************************************************************)
\* client.go:38-43: the literal NewClient starts from
NewClientDefaults(baseURL, n, heap) ==
    [client |-> [baseURL |-> baseURL, httpClient |-> DefaultRef(n)],
     heap |-> [heap EXCEPT ![DefaultRef(n)] = DefaultTimeout],
     panicked |-> FALSE]

\* a WithHTTPClient that copies the caller's http.Client into the one the
\* Client holds, and a WithTimeout that writes into that copy
ApplyOptionCopies(st, o) ==
    IF st.panicked THEN st
    ELSE IF o.opt = "WithHTTPClient"
         THEN IF o.ref = NilRef
              THEN [st EXCEPT !.panicked = TRUE]
              ELSE [st EXCEPT !.heap[st.client.httpClient] = st.heap[o.ref]]
         ELSE [st EXCEPT !.heap[st.client.httpClient] = o.timeout]

\* client.go:23-34: one option applied to the Client under construction.
\* WithHTTPClient stores the reference; WithTimeout writes through the
\* reference the Client holds and panics on a nil one.
ApplyOption(st, o) ==
    IF st.panicked THEN st
    ELSE IF o.opt = "WithHTTPClient"
         THEN [st EXCEPT !.client.httpClient = o.ref]
         ELSE IF st.client.httpClient = NilRef
              THEN [st EXCEPT !.panicked = TRUE]
              ELSE [st EXCEPT !.heap[st.client.httpClient] = o.timeout]

\* a loop that applies the options from the last to the first
RECURSIVE ApplyOptionsReversed(_, _)
ApplyOptionsReversed(st, opts) ==
    IF opts = <<>> THEN st
    ELSE ApplyOption(ApplyOptionsReversed(st, Tail(opts)), Head(opts))

\* client.go:45-47: for _, opt := range opts { opt(client) }
RECURSIVE ApplyOptions(_, _)
ApplyOptions(st, opts) ==
    IF opts = <<>> THEN st
    ELSE ApplyOptions(ApplyOption(st, Head(opts)), Tail(opts))

\* client.go:37-50
NewClient(baseURL, opts, n, heap) ==
    ApplyOptions(NewClientDefaults(baseURL, n, heap), opts)

\* The heap once NewClient has returned the Client cl: the http.Client that
\* NewClient allocated is garbage when an option replaced it, and is
\* dropped (back to the placeholder) then.
HeapAtReturn(heap, cl, n) ==
    IF cl.httpClient = DefaultRef(n) THEN heap ELSE [heap EXCEPT ![DefaultRef(n)] = 0]

(***************************************************************************)
(* Go values and JSON values (types.go, encoding/json).                    *)
(*   Go value        model                                                 *)
(*   string/int/bool the TLA+ value                                        *)
(*   time.Time       a record [year |-> y]                                 *)
(*   *T              <<>> for nil, <<v>> for a pointer to v                *)
(*   []T             <<>> for a nil slice, <<s>> for the slice with the    *)
(*                   elements of the sequence s                            *)
(*   struct          a record indexed by the Go field names                *)
(* A JSON value is a record [t |-> tag, v |-> payload].                    *)
(***************************************************************************)
JNull == [t |-> "null", v |-> "null"]
JStr(s) == [t |-> "str", v |-> s]
JNum(n) == [t |-> "num", v |-> n]
JBool(b) == [t |-> "bool", v |-> b]
JArr(s) == [t |-> "arr", v |-> s]
JObj(f) == [t |-> "obj", v |-> f]
\* json.Marshal returned an error instead of data
JError == [t |-> "error", v |-> "error"]

\* Kinds of Go types
KString == [k |-> "string"]
KInt == [k |-> "int"]
KBool == [k |-> "bool"]
\* float64; a score is kept in hundredths
KFloat == [k |-> "float"]
KTime == [k |-> "time"]
KMap == [k |-> "map"]
KPtr(e) == [k |-> "ptr", e |-> e]
KSlice(e) == [k |-> "slice", e |-> e]
KStruct(name) == [k |-> "struct", name |-> name]

\* One struct field with its `json:"key,omitempty"` tag
Field(name, key, omitempty, kind) ==
    [name |-> name, key |-> key, omitempty |-> omitempty, kind |-> kind]

\* types.go:5-10
ObservationFields ==
    << Field("ID", "id", FALSE, KString),
       Field("TraceID", "trace_id", FALSE, KString),
       Field("Time", "time", FALSE, KTime) >>

\* types.go:12-20
MessageFields ==
    << Field("Content", "content", FALSE, KString),
       Field("UUID", "uuid", TRUE, KPtr(KString)),
       Field("Name", "name", TRUE, KString),
       Field("Author", "author", FALSE, KString),
       Field("Timestamp", "timestamp", FALSE, KTime),
       Field("SourceDescription", "source_description", TRUE, KString) >>

\* types.go:22-26
ResultFields ==
    << Field("Message", "message", FALSE, KString),
       Field("Success", "success", FALSE, KBool) >>

\* types.go:28-31
HealthCheckResponseFields ==
    << Field("Status", "status", FALSE, KString) >>

\* types.go:33-39
SearchQueryFields ==
    << Field("GroupIDs", "group_ids", TRUE, KPtr(KSlice(KString))),
       Field("Query", "query", FALSE, KString),
       Field("MaxFacts", "max_facts", TRUE, KInt),
       Field("Observation", "observation", TRUE, KPtr(KStruct("Observation"))) >>

\* the tags of ValidAt and InvalidAt exchanged
FactResultFieldsSwapped ==
    << Field("UUID", "uuid", FALSE, KString),
       Field("Name", "name", FALSE, KString),
       Field("Fact", "fact", FALSE, KString),
       Field("ValidAt", "invalid_at", TRUE, KPtr(KTime)),
       Field("InvalidAt", "valid_at", TRUE, KPtr(KTime)),
       Field("CreatedAt", "created_at", FALSE, KTime),
       Field("ExpiredAt", "expired_at", TRUE, KPtr(KTime)) >>

\* types.go:41-50
FactResultFields ==
    << Field("UUID", "uuid", FALSE, KString),
       Field("Name", "name", FALSE, KString),
       Field("Fact", "fact", FALSE, KString),
       Field("ValidAt", "valid_at", TRUE, KPtr(KTime)),
       Field("InvalidAt", "invalid_at", TRUE, KPtr(KTime)),
       Field("CreatedAt", "created_at", FALSE, KTime),
       Field("ExpiredAt", "expired_at", TRUE, KPtr(KTime)) >>

\* types.go:52-55
SearchResultsFields ==
    << Field("Facts", "facts", FALSE, KSlice(KStruct("FactResult"))) >>

\* types.go:57-64
GetMemoryRequestFields ==
    << Field("GroupID", "group_id", FALSE, KString),
       Field("MaxFacts", "max_facts", TRUE, KInt),
       Field("CenterNodeUUID", "center_node_uuid", FALSE, KPtr(KString)),
       Field("Messages", "messages", FALSE, KSlice(KStruct("Message"))),
       Field("Observation", "observation", TRUE, KPtr(KStruct("Observation"))) >>

\* types.go:66-69
GetMemoryResponseFields ==
    << Field("Facts", "facts", FALSE, KSlice(KStruct("FactResult"))) >>

\* types.go:71-76
AddMessagesRequestFields ==
    << Field("GroupID", "group_id", FALSE, KString),
       Field("Messages", "messages", FALSE, KSlice(KStruct("Message"))),
       Field("Observation", "observation", TRUE, KPtr(KStruct("Observation"))) >>

\* types.go:78-85
AddEntityNodeRequestFields ==
    << Field("UUID", "uuid", FALSE, KString),
       Field("GroupID", "group_id", FALSE, KString),
       Field("Name", "name", FALSE, KString),
       Field("Summary", "summary", TRUE, KString),
       Field("Observation", "observation", TRUE, KPtr(KStruct("Observation"))) >>

\* types.go:87-96
EntityNodeFields ==
    << Field("UUID", "uuid", FALSE, KString),
       Field("GroupID", "group_id", FALSE, KString),
       Field("Name", "name", FALSE, KString),
       Field("Summary", "summary", TRUE, KString),
       Field("CreatedAt", "created_at", FALSE, KTime),
       Field("Labels", "labels", TRUE, KSlice(KString)),
       Field("Metadata", "metadata", TRUE, KMap) >>

\* types.go:98-109
EpisodeFields ==
    << Field("UUID", "uuid", FALSE, KString),
       Field("GroupID", "group_id", FALSE, KString),
       Field("Name", "name", FALSE, KString),
       Field("Content", "content", FALSE, KString),
       Field("Source", "source", FALSE, KString),
       Field("SourceDescription", "source_description", TRUE, KString),
       Field("CreatedAt", "created_at", FALSE, KTime),
       Field("ValidAt", "valid_at", FALSE, KTime),
       Field("Metadata", "metadata", TRUE, KMap) >>

(***************************************************************************)
(* The types of the advanced searches (types.go with the advanced search   *)
(* types, unnamed/part_004:100-277).                                       *)
(***************************************************************************)
\* part_004:102-109
NodeResultFields ==
    << Field("UUID", "uuid", FALSE, KString),
       Field("Name", "name", FALSE, KString),
       Field("Labels", "labels", FALSE, KSlice(KString)),
       Field("Summary", "summary", FALSE, KString),
       Field("CreatedAt", "created_at", FALSE, KTime) >>

\* part_004:111-122
EdgeResultFields ==
    << Field("UUID", "uuid", FALSE, KString),
       Field("Name", "name", FALSE, KString),
       Field("Fact", "fact", FALSE, KString),
       Field("SourceNodeUUID", "source_node_uuid", FALSE, KString),
       Field("TargetNodeUUID", "target_node_uuid", FALSE, KString),
       Field("ValidAt", "valid_at", TRUE, KPtr(KTime)),
       Field("InvalidAt", "invalid_at", TRUE, KPtr(KTime)),
       Field("CreatedAt", "created_at", FALSE, KTime),
       Field("ExpiredAt", "expired_at", TRUE, KPtr(KTime)) >>

\* part_004:124-132
EpisodeResultFields ==
    << Field("UUID", "uuid", FALSE, KString),
       Field("Content", "content", FALSE, KString),
       Field("Source", "source", FALSE, KString),
       Field("SourceDescription", "source_description", FALSE, KString),
       Field("CreatedAt", "created_at", FALSE, KTime),
       Field("ValidAt", "valid_at", FALSE, KTime) >>

\* part_004:134-140
CommunityResultFields ==
    << Field("UUID", "uuid", FALSE, KString),
       Field("Name", "name", FALSE, KString),
       Field("Summary", "summary", FALSE, KString),
       Field("CreatedAt", "created_at", FALSE, KTime) >>

\* part_004:142-146
TimeWindowFields ==
    << Field("Start", "start", FALSE, KTime),
       Field("End", "end", FALSE, KTime) >>

\* part_004:148-155
TemporalSearchRequestFields ==
    << Field("Query", "query", FALSE, KString),
       Field("GroupID", "group_id", TRUE, KPtr(KString)),
       Field("TimeStart", "time_start", FALSE, KTime),
       Field("TimeEnd", "time_end", FALSE, KTime),
       Field("MaxResults", "max_results", TRUE, KInt) >>

\* the tags of EdgeScores and NodeScores exchanged
TemporalSearchResponseFieldsSwapped ==
    << Field("Edges", "edges", FALSE, KSlice(KStruct("EdgeResult"))),
       Field("EdgeScores", "node_scores", FALSE, KSlice(KFloat)),
       Field("Nodes", "nodes", FALSE, KSlice(KStruct("NodeResult"))),
       Field("NodeScores", "edge_scores", FALSE, KSlice(KFloat)),
       Field("Episodes", "episodes", FALSE, KSlice(KStruct("EpisodeResult"))),
       Field("EpisodeScores", "episode_scores", FALSE, KSlice(KFloat)),
       Field("TimeWindow", "time_window", FALSE, KStruct("TimeWindow")) >>

\* part_004:157-166
TemporalSearchResponseFields ==
    << Field("Edges", "edges", FALSE, KSlice(KStruct("EdgeResult"))),
       Field("EdgeScores", "edge_scores", FALSE, KSlice(KFloat)),
       Field("Nodes", "nodes", FALSE, KSlice(KStruct("NodeResult"))),
       Field("NodeScores", "node_scores", FALSE, KSlice(KFloat)),
       Field("Episodes", "episodes", FALSE, KSlice(KStruct("EpisodeResult"))),
       Field("EpisodeScores", "episode_scores", FALSE, KSlice(KFloat)),
       Field("TimeWindow", "time_window", FALSE, KStruct("TimeWindow")) >>

\* part_004:168-177
EntityRelationshipSearchRequestFields ==
    << Field("Query", "query", FALSE, KString),
       Field("GroupID", "group_id", TRUE, KPtr(KString)),
       Field("CenterNodeUUID", "center_node_uuid", FALSE, KString),
       Field("MaxDepth", "max_depth", TRUE, KInt),
       Field("NodeLabels", "node_labels", TRUE, KPtr(KSlice(KString))),
       Field("EdgeTypes", "edge_types", TRUE, KPtr(KSlice(KString))),
       Field("MaxResults", "max_results", TRUE, KInt) >>

\* part_004:179-186
EntityRelationshipSearchResponseFields ==
    << Field("Edges", "edges", FALSE, KSlice(KStruct("EdgeResult"))),
       Field("EdgeDistances", "edge_distances", FALSE, KSlice(KFloat)),
       Field("Nodes", "nodes", FALSE, KSlice(KStruct("NodeResult"))),
       Field("NodeDistances", "node_distances", FALSE, KSlice(KFloat)),
       Field("CenterNode", "center_node", TRUE, KPtr(KStruct("NodeResult"))) >>

\* part_004:188-194
DiverseSearchRequestFields ==
    << Field("Query", "query", FALSE, KString),
       Field("GroupID", "group_id", TRUE, KPtr(KString)),
       Field("DiversityLevel", "diversity_level", TRUE, KString),
       Field("MaxResults", "max_results", TRUE, KInt) >>

\* part_004:196-206
DiverseSearchResponseFields ==
    << Field("Edges", "edges", FALSE, KSlice(KStruct("EdgeResult"))),
       Field("EdgeMMRScores", "edge_mmr_scores", FALSE, KSlice(KFloat)),
       Field("Nodes", "nodes", FALSE, KSlice(KStruct("NodeResult"))),
       Field("NodeMMRScores", "node_mmr_scores", FALSE, KSlice(KFloat)),
       Field("Episodes", "episodes", FALSE, KSlice(KStruct("EpisodeResult"))),
       Field("EpisodeScores", "episode_scores", FALSE, KSlice(KFloat)),
       Field("Communities", "communities", FALSE, KSlice(KStruct("CommunityResult"))),
       Field("CommunityMMRScores", "community_mmr_scores", FALSE, KSlice(KFloat)) >>

\* part_004:208-215
EpisodeContextSearchRequestFields ==
    << Field("Query", "query", FALSE, KString),
       Field("GroupID", "group_id", TRUE, KPtr(KString)),
       Field("AgentTypes", "agent_types", TRUE, KPtr(KSlice(KString))),
       Field("IncludeToolCalls", "include_tool_calls", TRUE, KBool),
       Field("MaxResults", "max_results", TRUE, KInt) >>

\* part_004:217-223
EpisodeContextSearchResponseFields ==
    << Field("Episodes", "episodes", FALSE, KSlice(KStruct("EpisodeResult"))),
       Field("RerankerScores", "reranker_scores", FALSE, KSlice(KFloat)),
       Field("MentionedNodes", "mentioned_nodes", FALSE, KSlice(KStruct("NodeResult"))),
       Field("MentionedNodeScores", "mentioned_node_scores", FALSE, KSlice(KFloat)) >>

\* part_004:225-232
SuccessfulToolsSearchRequestFields ==
    << Field("Query", "query", FALSE, KString),
       Field("GroupID", "group_id", TRUE, KPtr(KString)),
       Field("ToolNames", "tool_names", TRUE, KPtr(KSlice(KString))),
       Field("MinMentions", "min_mentions", TRUE, KInt),
       Field("MaxResults", "max_results", TRUE, KInt) >>

\* part_004:234-242
SuccessfulToolsSearchResponseFields ==
    << Field("Edges", "edges", FALSE, KSlice(KStruct("EdgeResult"))),
       Field("EdgeMentionCounts", "edge_mention_counts", FALSE, KSlice(KFloat)),
       Field("Nodes", "nodes", FALSE, KSlice(KStruct("NodeResult"))),
       Field("NodeMentionCounts", "node_mention_counts", FALSE, KSlice(KFloat)),
       Field("Episodes", "episodes", FALSE, KSlice(KStruct("EpisodeResult"))),
       Field("EpisodeScores", "episode_scores", FALSE, KSlice(KFloat)) >>

\* part_004:244-250
RecentContextSearchRequestFields ==
    << Field("Query", "query", FALSE, KString),
       Field("GroupID", "group_id", TRUE, KPtr(KString)),
       Field("RecencyWindow", "recency_window", TRUE, KString),
       Field("MaxResults", "max_results", TRUE, KInt) >>

\* part_004:252-261
RecentContextSearchResponseFields ==
    << Field("Edges", "edges", FALSE, KSlice(KStruct("EdgeResult"))),
       Field("EdgeScores", "edge_scores", FALSE, KSlice(KFloat)),
       Field("Nodes", "nodes", FALSE, KSlice(KStruct("NodeResult"))),
       Field("NodeScores", "node_scores", FALSE, KSlice(KFloat)),
       Field("Episodes", "episodes", FALSE, KSlice(KStruct("EpisodeResult"))),
       Field("EpisodeScores", "episode_scores", FALSE, KSlice(KFloat)),
       Field("TimeWindow", "time_window", FALSE, KStruct("TimeWindow")) >>

\* part_004:263-270
EntityByLabelSearchRequestFields ==
    << Field("Query", "query", FALSE, KString),
       Field("GroupID", "group_id", TRUE, KPtr(KString)),
       Field("NodeLabels", "node_labels", FALSE, KSlice(KString)),
       Field("EdgeTypes", "edge_types", TRUE, KPtr(KSlice(KString))),
       Field("MaxResults", "max_results", TRUE, KInt) >>

\* part_004:272-277
EntityByLabelSearchResponseFields ==
    << Field("Nodes", "nodes", FALSE, KSlice(KStruct("NodeResult"))),
       Field("NodeScores", "node_scores", FALSE, KSlice(KFloat)),
       Field("Edges", "edges", FALSE, KSlice(KStruct("EdgeResult"))),
       Field("EdgeScores", "edge_scores", FALSE, KSlice(KFloat)) >>

\* The fields of a struct type, by its name
Fields(name) ==
    CASE name = "Observation" -> ObservationFields
      [] name = "Message" -> MessageFields
      [] name = "Result" -> ResultFields
      [] name = "HealthCheckResponse" -> HealthCheckResponseFields
      [] name = "SearchQuery" -> SearchQueryFields
      [] name = "FactResult" -> FactResultFields
      [] name = "SearchResults" -> SearchResultsFields
      [] name = "GetMemoryRequest" -> GetMemoryRequestFields
      [] name = "GetMemoryResponse" -> GetMemoryResponseFields
      [] name = "AddMessagesRequest" -> AddMessagesRequestFields
      [] name = "AddEntityNodeRequest" -> AddEntityNodeRequestFields
      [] name = "EntityNode" -> EntityNodeFields
      [] name = "Episode" -> EpisodeFields
      [] name = "NodeResult" -> NodeResultFields
      [] name = "EdgeResult" -> EdgeResultFields
      [] name = "EpisodeResult" -> EpisodeResultFields
      [] name = "CommunityResult" -> CommunityResultFields
      [] name = "TimeWindow" -> TimeWindowFields
      [] name = "TemporalSearchRequest" -> TemporalSearchRequestFields
      [] name = "TemporalSearchResponse" -> TemporalSearchResponseFields
      [] name = "EntityRelationshipSearchRequest" -> EntityRelationshipSearchRequestFields
      [] name = "EntityRelationshipSearchResponse" -> EntityRelationshipSearchResponseFields
      [] name = "DiverseSearchRequest" -> DiverseSearchRequestFields
      [] name = "DiverseSearchResponse" -> DiverseSearchResponseFields
      [] name = "EpisodeContextSearchRequest" -> EpisodeContextSearchRequestFields
      [] name = "EpisodeContextSearchResponse" -> EpisodeContextSearchResponseFields
      [] name = "SuccessfulToolsSearchRequest" -> SuccessfulToolsSearchRequestFields
      [] name = "SuccessfulToolsSearchResponse" -> SuccessfulToolsSearchResponseFields
      [] name = "RecentContextSearchRequest" -> RecentContextSearchRequestFields
      [] name = "RecentContextSearchResponse" -> RecentContextSearchResponseFields
      [] name = "EntityByLabelSearchRequest" -> EntityByLabelSearchRequestFields
      [] name = "EntityByLabelSearchResponse" -> EntityByLabelSearchResponseFields

\* time.Time values: the zero time, an ordinary instant, and an instant
\* whose year RFC 3339 cannot express.
ZeroTime == [year |-> 1]
SomeTime == [year |-> 2024]
LaterTime == [year |-> 2025]
FarTime == [year |-> 10000]

\* time.Time.MarshalJSON: an error for a year outside [0, 9999], else the
\* RFC 3339 text.
TimeMarshals(tm) == tm.year >= 0 /\ tm.year <= 9999
FormatRFC3339(tm) ==
    CASE tm = ZeroTime -> "0001-01-01T00:00:00Z"
      [] tm = SomeTime -> "2024-01-15T10:00:00Z"
      [] tm = LaterTime -> "2025-01-15T10:00:00Z"
\* time.Time.UnmarshalJSON on a JSON string
TimeTexts == {"0001-01-01T00:00:00Z", "2024-01-15T10:00:00Z", "2025-01-15T10:00:00Z"}
ParseRFC3339(s) ==
    CASE s = "0001-01-01T00:00:00Z" -> ZeroTime
      [] s = "2024-01-15T10:00:00Z" -> SomeTime
      [] s = "2025-01-15T10:00:00Z" -> LaterTime

\* Go strings are byte strings: json.Marshal writes the bytes that are not
\* valid UTF-8 as the replacement character U+FFFD.
ToValidUTF8(str) ==
    CASE str = "caf<0xE9>" -> "caf<U+FFFD>"
      [] OTHER -> str

\* an omitempty that looks through a pointer at the value it points to
RECURSIVE IsEmptyValueThroughPointer(_, _)
IsEmptyValueThroughPointer(kind, v) ==
    CASE kind.k = "string" -> v = ""
      [] kind.k = "int" -> v = 0
      [] kind.k = "float" -> v = 0
      [] kind.k = "bool" -> v = FALSE
      [] kind.k = "ptr" -> v = <<>> \/ IsEmptyValueThroughPointer(kind.e, v[1])
      [] kind.k = "slice" -> v = <<>> \/ v = << <<>> >>
      [] kind.k = "map" -> v = <<>> \/ v = << <<>> >>
      [] OTHER -> FALSE

\* an omitempty that leaves out numbers and strings only and keeps false
IsEmptyValueKeepsFalse(kind, v) ==
    CASE kind.k = "string" -> v = ""
      [] kind.k = "int" -> v = 0
      [] kind.k = "float" -> v = 0
      [] kind.k = "ptr" -> v = <<>>
      [] kind.k = "slice" -> v = <<>> \/ v = << <<>> >>
      [] kind.k = "map" -> v = <<>> \/ v = << <<>> >>
      [] OTHER -> FALSE

\* encoding/json isEmptyValue: what `omitempty` leaves out.  A struct (and
\* so a time.Time) is never empty; a pointer is empty only when nil; a slice
\* or map when its length is 0.
IsEmptyValue(kind, v) ==
    CASE kind.k = "string" -> v = ""
      [] kind.k = "int" -> v = 0
      [] kind.k = "float" -> v = 0
      [] kind.k = "bool" -> v = FALSE
      [] kind.k = "ptr" -> v = <<>>
      [] kind.k = "slice" -> v = <<>> \/ v = << <<>> >>
      [] kind.k = "map" -> v = <<>> \/ v = << <<>> >>
      [] OTHER -> FALSE

\* json.Marshal of a Go value of the given kind (client.go:56).
RECURSIVE MarshalValue(_, _)
MarshalValue(kind, v) ==
    CASE kind.k = "string" -> JStr(ToValidUTF8(v))
      [] kind.k = "int" -> JNum(v)
      [] kind.k = "float" -> JNum(v)
      [] kind.k = "bool" -> JBool(v)
      [] kind.k = "time" ->
           IF TimeMarshals(v) THEN JStr(FormatRFC3339(v)) ELSE JError
      [] kind.k = "map" -> IF v = <<>> THEN JNull ELSE JObj(v[1])
      [] kind.k = "ptr" ->
           IF v = <<>> THEN JNull ELSE MarshalValue(kind.e, v[1])
      [] kind.k = "slice" ->
           IF v = <<>> THEN JNull
           ELSE LET enc == [i \in 1..Len(v[1]) |-> MarshalValue(kind.e, v[1][i])]
                IN IF \E i \in 1..Len(enc) : enc[i].t = "error"
                   THEN JError ELSE JArr(enc)
      [] kind.k = "struct" ->
           LET fs == Fields(kind.name)
               kept == {i \in 1..Len(fs) :
                          ~(fs[i].omitempty /\ IsEmptyValue(fs[i].kind, v[fs[i].name]))}
               enc == [i \in kept |-> MarshalValue(fs[i].kind, v[fs[i].name])]
           IN IF \E i \in kept : enc[i].t = "error"
              THEN JError
              ELSE JObj([key \in {fs[i].key : i \in kept} |->
                           enc[CHOOSE i \in kept : fs[i].key = key]])

\* The zero value of a Go type (`var result T`).
RECURSIVE Zero(_)
Zero(kind) ==
    CASE kind.k = "string" -> ""
      [] kind.k = "int" -> 0
      [] kind.k = "float" -> 0
      [] kind.k = "bool" -> FALSE
      [] kind.k = "time" -> ZeroTime
      [] kind.k = "struct" ->
           LET fs == Fields(kind.name)
           IN [n \in {fs[i].name : i \in 1..Len(fs)} |->
                 Zero(fs[CHOOSE i \in 1..Len(fs) : fs[i].name = n].kind)]
      [] OTHER -> <<>>

\* The lower-case form of the keys that occur in bodies in another case.
FoldKey(k) ==
    CASE k = "STATUS" -> "status"
      [] OTHER -> k

\* The keys of the JSON object obj that encoding/json takes for the field
\* with the given key, in the order they are met: the key itself and the
\* keys that differ from it in case only.  (In the bodies of this model a
\* key in another case stands after the key itself.)
KeysFor(key, obj) ==
    LET variants == {k \in DOMAIN obj : k # key /\ FoldKey(k) = key}
    IN (IF key \in DOMAIN obj THEN <<key>> ELSE <<>>) \o
       (IF variants = {} THEN <<>>
        ELSE CHOOSE q \in [1..Cardinality(variants) -> variants] :
                 \A v \in variants : \E i \in DOMAIN q : q[i] = v)

\* a decoder set to refuse the keys that match no field
UnknownKeysRefused(fs, obj) ==
    \A k \in DOMAIN obj : \E i \in 1..Len(fs) : FoldKey(k) = fs[i].key

\* client.go:85: the decoder is used as json.NewDecoder returns it, without
\* DisallowUnknownFields, so an object is fit whatever keys it has
UnknownKeysOK(fs, obj) == TRUE

\* json.Unmarshal of the JSON value j into a Go value of the given kind that
\* currently holds cur.  The result is the value afterwards and whether no
\* type error was met.  As encoding/json does, a type error leaves the
\* field concerned as it was and decoding goes on with the other fields;
\* JSON null sets a pointer, slice or map to nil and is a no-op elsewhere;
\* keys of an object that match no field are skipped, and a key matches a
\* field when it equals its name up to case.
RECURSIVE Unmarshal(_, _, _)
RECURSIVE UnmarshalKeys(_, _, _, _)
\* the values of obj under the given keys, stored one after the other
UnmarshalKeys(kind, obj, keys, cur) ==
    IF keys = <<>> THEN [v |-> cur, ok |-> TRUE]
    ELSE LET first == Unmarshal(kind, obj[Head(keys)], cur)
             rest == UnmarshalKeys(kind, obj, Tail(keys), first.v)
         IN [v |-> rest.v, ok |-> first.ok /\ rest.ok]

Unmarshal(kind, j, cur) ==
    IF j.t = "null"
    THEN [v |-> IF kind.k \in {"ptr", "slice", "map"} THEN <<>> ELSE cur, ok |-> TRUE]
    ELSE
    CASE kind.k = "string" ->
           IF j.t = "str" THEN [v |-> j.v, ok |-> TRUE] ELSE [v |-> cur, ok |-> FALSE]
      [] kind.k = "int" ->
           IF j.t = "num" THEN [v |-> j.v, ok |-> TRUE] ELSE [v |-> cur, ok |-> FALSE]
      [] kind.k = "float" ->
           IF j.t = "num" THEN [v |-> j.v, ok |-> TRUE] ELSE [v |-> cur, ok |-> FALSE]
      [] kind.k = "bool" ->
           IF j.t = "bool" THEN [v |-> j.v, ok |-> TRUE] ELSE [v |-> cur, ok |-> FALSE]
      [] kind.k = "time" ->
           IF j.t = "str" /\ j.v \in TimeTexts
           THEN [v |-> ParseRFC3339(j.v), ok |-> TRUE]
           ELSE [v |-> cur, ok |-> FALSE]
      [] kind.k = "map" ->
           IF j.t = "obj" THEN [v |-> <<j.v>>, ok |-> TRUE] ELSE [v |-> cur, ok |-> FALSE]
      [] kind.k = "ptr" ->
           LET inner == Unmarshal(kind.e, j, IF cur = <<>> THEN Zero(kind.e) ELSE cur[1])
           IN [v |-> <<inner.v>>, ok |-> inner.ok]
      [] kind.k = "slice" ->
           IF j.t = "arr"
           THEN LET dec == [i \in 1..Len(j.v) |-> Unmarshal(kind.e, j.v[i], Zero(kind.e))]
                IN [v |-> << [i \in 1..Len(j.v) |-> dec[i].v] >>,
                    ok |-> \A i \in 1..Len(j.v) : dec[i].ok]
           ELSE [v |-> cur, ok |-> FALSE]
      [] kind.k = "struct" ->
           IF j.t = "obj"
           THEN LET fs == Fields(kind.name)
                    dec == [i \in 1..Len(fs) |->
                              UnmarshalKeys(fs[i].kind, j.v, KeysFor(fs[i].key, j.v),
                                            cur[fs[i].name])]
                IN [v |-> [n \in {fs[i].name : i \in 1..Len(fs)} |->
                             dec[CHOOSE i \in 1..Len(fs) : fs[i].name = n].v],
                    ok |-> /\ \A i \in 1..Len(fs) : dec[i].ok
                           /\ UnknownKeysOK(fs, j.v)]
           ELSE [v |-> cur, ok |-> FALSE]

(***************************************************************************)
(* The endpoint methods (client.go:93-195): verb, path, whether a request  *)
(* structure is sent as body, and the type of the decode destination.      *)
(***************************************************************************)
Methods == {"HealthCheck", "Search", "GetEntityEdge", "GetEpisodes", "GetMemory",
            "AddMessages", "AddEntityNode", "DeleteEntityEdge", "DeleteGroup",
            "DeleteEpisode", "Clear"}

\* The seven advanced searches.  Each binds do to a POST with its request
\* structure as body and its response structure as destination.
AdvancedMethods ==
    {"TemporalWindowSearch", "EntityRelationshipsSearch", "DiverseResultsSearch",
     "EpisodeContextSearch", "SuccessfulToolsSearch", "RecentContextSearch",
     "EntityByLabelSearch"}

AdvancedRequestType(m) ==
    CASE m = "TemporalWindowSearch" -> "TemporalSearchRequest"
      [] m = "EntityRelationshipsSearch" -> "EntityRelationshipSearchRequest"
      [] m = "DiverseResultsSearch" -> "DiverseSearchRequest"
      [] m = "EpisodeContextSearch" -> "EpisodeContextSearchRequest"
      [] m = "SuccessfulToolsSearch" -> "SuccessfulToolsSearchRequest"
      [] m = "RecentContextSearch" -> "RecentContextSearchRequest"
      [] m = "EntityByLabelSearch" -> "EntityByLabelSearchRequest"

\* every advanced search decoding into the response of the temporal one
AdvancedResultKindOfTemporal(m) == KStruct("TemporalSearchResponse")

AdvancedResultKind(m) ==
    CASE m = "TemporalWindowSearch" -> KStruct("TemporalSearchResponse")
      [] m = "EntityRelationshipsSearch" -> KStruct("EntityRelationshipSearchResponse")
      [] m = "DiverseResultsSearch" -> KStruct("DiverseSearchResponse")
      [] m = "EpisodeContextSearch" -> KStruct("EpisodeContextSearchResponse")
      [] m = "SuccessfulToolsSearch" -> KStruct("SuccessfulToolsSearchResponse")
      [] m = "RecentContextSearch" -> KStruct("RecentContextSearchResponse")
      [] m = "EntityByLabelSearch" -> KStruct("EntityByLabelSearchResponse")

\* One path for each advanced search; only the first is given by name.
AdvancedPath(m) ==
    CASE m = "TemporalWindowSearch" -> <<"/search/temporal-window">>
      [] m = "EntityRelationshipsSearch" -> <<"/search/entity-relationships">>
      [] m = "DiverseResultsSearch" -> <<"/search/diverse">>
      [] m = "EpisodeContextSearch" -> <<"/search/episode-context">>
      [] m = "SuccessfulToolsSearch" -> <<"/search/successful-tools">>
      [] m = "RecentContextSearch" -> <<"/search/recent-context">>
      [] m = "EntityByLabelSearch" -> <<"/search/entity-by-label">>

\* the deleting methods issued as POST
VerbPostForDelete(m) ==
    CASE m \in {"HealthCheck", "GetEntityEdge", "GetEpisodes"} -> "GET"
      [] OTHER -> "POST"

\* the http.Method* constant each method passes to do
Verb(m) ==
    CASE m \in {"HealthCheck", "GetEntityEdge", "GetEpisodes"} -> "GET"
      [] m \in {"DeleteEntityEdge", "DeleteGroup", "DeleteEpisode"} -> "DELETE"
      [] OTHER -> "POST"

\* the methods that pass a request structure as body, and its type
BodyMethods == {"Search", "GetMemory", "AddMessages", "AddEntityNode"}
RequestType(m) ==
    CASE m = "Search" -> "SearchQuery"
      [] m = "GetMemory" -> "GetMemoryRequest"
      [] m = "AddMessages" -> "AddMessagesRequest"
      [] m = "AddEntityNode" -> "AddEntityNodeRequest"
      [] m \in AdvancedMethods -> AdvancedRequestType(m)

\* the type of `var result` in each method
ResultKind(m) ==
    CASE m = "HealthCheck" -> KStruct("HealthCheckResponse")
      [] m = "Search" -> KStruct("SearchResults")
      [] m = "GetEntityEdge" -> KStruct("FactResult")
      [] m = "GetEpisodes" -> KSlice(KStruct("Episode"))
      [] m = "GetMemory" -> KStruct("GetMemoryResponse")
      [] m = "AddEntityNode" -> KStruct("EntityNode")
      [] m \in AdvancedMethods -> AdvancedResultKind(m)
      [] OTHER -> KStruct("Result")

\* a path built with the identifier put in as it is
EscapeCharNone(ch) == ch

\* url.PathEscape on one character: letters stay, '/', '?', '#', '%' and the
\* space are percent-encoded, ':' is left alone in a path segment.
EscapeChar(ch) ==
    CASE ch = "/" -> "%2F"
      [] ch = "?" -> "%3F"
      [] ch = "#" -> "%23"
      [] ch = "%" -> "%25"
      [] ch = " " -> "%20"
      [] OTHER -> ch

\* url.PathEscape: a string is a sequence of characters, the result a
\* sequence of pieces.
PathEscape(id) == [i \in 1..Len(id) |-> EscapeChar(id[i])]

\* The path each method builds (client.go:96,105,114,124,134,143,152,161,171,
\* 181,191), as a sequence of text pieces.
Path(m, arg) ==
    CASE m = "HealthCheck" -> <<"/healthcheck">>
      [] m = "Search" -> <<"/search">>
      [] m = "GetEntityEdge" -> <<"/entity-edge/">> \o PathEscape(arg.id)
      [] m = "GetEpisodes" ->
           <<"/episodes/">> \o PathEscape(arg.id) \o <<"?last_n=", ToString(arg.lastN)>>
      [] m = "GetMemory" -> <<"/get-memory">>
      [] m = "AddMessages" -> <<"/messages">>
      [] m = "AddEntityNode" -> <<"/entity-node">>
      [] m = "DeleteEntityEdge" -> <<"/entity-edge/">> \o PathEscape(arg.id)
      [] m = "DeleteGroup" -> <<"/group/">> \o PathEscape(arg.id)
      [] m = "DeleteEpisode" -> <<"/episode/">> \o PathEscape(arg.id)
      [] m = "Clear" -> <<"/clear">>
      [] m \in AdvancedMethods -> AdvancedPath(m)

\* The text pieces Path puts together, cut at the characters that structure
\* a URL: '/' between path segments and '?' before the query.
Tokens(piece) ==
    CASE piece = "/healthcheck" -> <<"/", "healthcheck">>
      [] piece = "/search" -> <<"/", "search">>
      [] piece = "/get-memory" -> <<"/", "get-memory">>
      [] piece = "/messages" -> <<"/", "messages">>
      [] piece = "/entity-node" -> <<"/", "entity-node">>
      [] piece = "/clear" -> <<"/", "clear">>
      [] piece = "/entity-edge/" -> <<"/", "entity-edge", "/">>
      [] piece = "/episodes/" -> <<"/", "episodes", "/">>
      [] piece = "/group/" -> <<"/", "group", "/">>
      [] piece = "/episode/" -> <<"/", "episode", "/">>
      [] piece = "?last_n=" -> <<"?", "last_n=">>
      [] OTHER -> <<piece>>

RECURSIVE Flatten(_)
Flatten(pieces) ==
    IF pieces = <<>> THEN <<>> ELSE Tokens(Head(pieces)) \o Flatten(Tail(pieces))

\* the part of toks before the first occurrence of sep, and the part after
\* it (<<>> when sep does not occur)
Before(toks, sep) ==
    IF \E i \in 1..Len(toks) : toks[i] = sep
    THEN SubSeq(toks, 1, (CHOOSE i \in 1..Len(toks) :
                             toks[i] = sep /\ \A k \in 1..(i-1) : toks[k] # sep) - 1)
    ELSE toks
After(toks, sep) == SubSeq(toks, Len(Before(toks, sep)) + 2, Len(toks))

\* the segments of a path that starts with '/'
RECURSIVE Segments(_)
Segments(toks) ==
    IF toks = <<>> THEN <<>>
    ELSE LET rest == Tail(toks)
         IN <<Before(rest, "/")>> \o
            (IF Len(Before(rest, "/")) < Len(rest)
             THEN Segments(SubSeq(rest, Len(Before(rest, "/")) + 1, Len(rest)))
             ELSE <<>>)

\* What the server receives as request target for the URL handed to
\* http.NewRequest (client.go:64,73): url.Parse cuts the fragment off at the
\* first '#' (it is never sent) and the query at the first '?'; the path
\* goes out in its escaped form, split into segments at each '/'.
RequestTarget(url) ==
    LET toks == Before(Flatten(Tail(url)), "#")
    IN [segments |-> Segments(Before(toks, "?")),
        query |-> After(toks, "?"),
        hasQuery |-> Len(Before(toks, "?")) < Len(toks)]

\* url.PathUnescape, as the server applies it to one segment
UnescapeToken(t) ==
    CASE t = "%2F" -> "/"
      [] t = "%3F" -> "?"
      [] t = "%23" -> "#"
      [] t = "%25" -> "%"
      [] t = "%20" -> " "
      [] OTHER -> t
PathUnescape(seg) == [i \in 1..Len(seg) |-> UnescapeToken(seg[i])]

(***************************************************************************)
(* The arguments callers pass.  An argument is [id, lastN, body]: the      *)
(* identifier and count of the path methods, and body = <<>> for a method  *)
(* without request structure or <<request>> for one with it.               *)
(***************************************************************************)
Ids == { <<"a">>, <<"a", "/", "b">>, <<"q", "?", "x", "#", "f">>,
         <<"%", "2", "F", " ", "z">> }
LastNs == {10}

AnObservation == [ID |-> "obs-1", TraceID |-> "trace-1", Time |-> SomeTime]
BadObservation == [ID |-> "obs-1", TraceID |-> "trace-1", Time |-> FarTime]
AMessage ==
    [Content |-> "hello", UUID |-> <<>>, Name |-> "", Author |-> "user",
     Timestamp |-> SomeTime, SourceDescription |-> ""]
BadMessage == [AMessage EXCEPT !.Timestamp = FarTime]

\* GroupIDs is a *[]string: unset, set to a slice with a group, set to the
\* empty slice []string{}, and set to a nil slice.
SearchQueries ==
    { [GroupIDs |-> <<>>, Query |-> "q", MaxFacts |-> 0, Observation |-> <<>>],
      [GroupIDs |-> << << <<"g1">> >> >>, Query |-> "q", MaxFacts |-> 10,
       Observation |-> <<AnObservation>>],
      [GroupIDs |-> << << <<>> >> >>, Query |-> "", MaxFacts |-> 0, Observation |-> <<>>],
      [GroupIDs |-> << <<>> >>, Query |-> "q", MaxFacts |-> 0, Observation |-> <<>>],
      [GroupIDs |-> <<>>, Query |-> "caf<0xE9>", MaxFacts |-> 0, Observation |-> <<>>] }
GetMemoryRequests ==
    { [GroupID |-> "g1", MaxFacts |-> 0, CenterNodeUUID |-> <<>>,
       Messages |-> << <<AMessage>> >>, Observation |-> <<>>],
      [GroupID |-> "g1", MaxFacts |-> 10, CenterNodeUUID |-> <<"n1">>,
       Messages |-> << <<AMessage>> >>, Observation |-> <<AnObservation>>],
      [GroupID |-> "g1", MaxFacts |-> 0, CenterNodeUUID |-> <<>>,
       Messages |-> << <<BadMessage>> >>, Observation |-> <<>>] }
\* a message whose optional UUID is set to the empty string
EmptyUUIDMessage == [AMessage EXCEPT !.UUID = <<"">>, !.Timestamp = ZeroTime]

AddMessagesRequests ==
    { [GroupID |-> "g1", Messages |-> << <<AMessage, AMessage>> >>, Observation |-> <<>>],
      [GroupID |-> "", Messages |-> << <<EmptyUUIDMessage>> >>, Observation |-> <<>>],
      [GroupID |-> "g1", Messages |-> << <<AMessage, BadMessage>> >>, Observation |-> <<>>] }
AddEntityNodeRequests ==
    { [UUID |-> "n1", GroupID |-> "g1", Name |-> "node", Summary |-> "",
       Observation |-> <<>>],
      [UUID |-> "n1", GroupID |-> "g1", Name |-> "node", Summary |-> "s",
       Observation |-> <<BadObservation>>] }

Arg(id, lastN, body) == [id |-> id, lastN |-> lastN, body |-> body]
NoArg == Arg(<<>>, 0, <<>>)

ArgsOf(m) ==
    CASE m \in {"HealthCheck", "Clear"} -> {NoArg}
      [] m \in {"GetEntityEdge", "DeleteEntityEdge", "DeleteGroup", "DeleteEpisode"} ->
           {Arg(id, 0, <<>>) : id \in Ids}
      [] m = "GetEpisodes" -> {Arg(id, n, <<>>) : id \in Ids, n \in LastNs}
      [] m = "Search" -> {Arg(<<>>, 0, <<r>>) : r \in SearchQueries}
      [] m = "GetMemory" -> {Arg(<<>>, 0, <<r>>) : r \in GetMemoryRequests}
      [] m = "AddMessages" -> {Arg(<<>>, 0, <<r>>) : r \in AddMessagesRequests}
      [] m = "AddEntityNode" -> {Arg(<<>>, 0, <<r>>) : r \in AddEntityNodeRequests}

\* The requests of the advanced searches
AdvancedRequests(m) ==
    CASE m = "TemporalWindowSearch" ->
           { [Query |-> "q", GroupID |-> <<"g1">>, TimeStart |-> SomeTime,
              TimeEnd |-> LaterTime, MaxResults |-> 10],
             [Query |-> "q", GroupID |-> <<>>, TimeStart |-> SomeTime,
              TimeEnd |-> FarTime, MaxResults |-> 0] }
      [] m = "EntityRelationshipsSearch" ->
           { [Query |-> "q", GroupID |-> <<>>, CenterNodeUUID |-> "n1", MaxDepth |-> 2,
              NodeLabels |-> <<>>, EdgeTypes |-> << << <<"USES">> >> >>,
              MaxResults |-> 10] }
      [] m = "DiverseResultsSearch" ->
           { [Query |-> "q", GroupID |-> <<"g1">>, DiversityLevel |-> "high",
              MaxResults |-> 10] }
      [] m = "EpisodeContextSearch" ->
           { [Query |-> "q", GroupID |-> <<"g1">>, AgentTypes |-> << << <<"pentester">> >> >>,
              IncludeToolCalls |-> TRUE, MaxResults |-> 5] }
      [] m = "SuccessfulToolsSearch" ->
           { [Query |-> "q", GroupID |-> <<>>, ToolNames |-> <<>>, MinMentions |-> 2,
              MaxResults |-> 10] }
      [] m = "RecentContextSearch" ->
           { [Query |-> "q", GroupID |-> <<"g1">>, RecencyWindow |-> "24h",
              MaxResults |-> 10] }
      [] m = "EntityByLabelSearch" ->
           { [Query |-> "q", GroupID |-> <<>>, NodeLabels |-> << <<"SERVICE">> >>,
              EdgeTypes |-> <<>>, MaxResults |-> 0] }

\* Values of the optional fields: a *string nil, pointing to "" and to a
\* text; a *[]string nil, pointing to the empty slice and to a slice with
\* an element; numbers zero and not.
OptionalStrings == {<<>>, <<"">>, <<"g1">>}
OptionalLists == {<<>>, << << <<>> >> >>, << << <<"x">> >> >>}
Counts == {0, 10}

\* The requests of every method with a request structure, each optional
\* field unset, set to its zero or empty value, or filled.
OptionalRequests(m) ==
    CASE m = "Search" ->
           { [GroupIDs |-> l, Query |-> "q", MaxFacts |-> n, Observation |-> <<>>] :
               l \in OptionalLists, n \in Counts }
      [] m = "GetMemory" ->
           { [GroupID |-> "g1", MaxFacts |-> n, CenterNodeUUID |-> u,
              Messages |-> << <<AMessage>> >>, Observation |-> <<>>] :
               n \in Counts, u \in OptionalStrings }
      [] m = "AddMessages" ->
           { [GroupID |-> "g1",
              Messages |-> << << [AMessage EXCEPT !.UUID = u, !.Name = nm,
                                                  !.SourceDescription = sd] >> >>,
              Observation |-> <<>>] :
               u \in OptionalStrings, nm \in {"", "bob"}, sd \in {"", "chat"} }
      [] m = "AddEntityNode" ->
           { [UUID |-> "n1", GroupID |-> "g1", Name |-> "node", Summary |-> sm,
              Observation |-> <<>>] : sm \in {"", "s"} }
      [] m = "TemporalWindowSearch" ->
           { [Query |-> "q", GroupID |-> g, TimeStart |-> SomeTime,
              TimeEnd |-> LaterTime, MaxResults |-> n] :
               g \in OptionalStrings, n \in Counts }
      [] m = "EntityRelationshipsSearch" ->
           { [Query |-> "q", GroupID |-> <<>>, CenterNodeUUID |-> "n1", MaxDepth |-> d,
              NodeLabels |-> l, EdgeTypes |-> <<>>, MaxResults |-> n] :
               d \in {0, 2}, l \in OptionalLists, n \in Counts }
      [] m = "DiverseResultsSearch" ->
           { [Query |-> "q", GroupID |-> g, DiversityLevel |-> dl, MaxResults |-> n] :
               g \in OptionalStrings, dl \in {"", "high"}, n \in Counts }
      [] m = "EpisodeContextSearch" ->
           { [Query |-> "q", GroupID |-> <<>>, AgentTypes |-> l,
              IncludeToolCalls |-> b, MaxResults |-> n] :
               l \in OptionalLists, b \in BOOLEAN, n \in Counts }
      [] m = "SuccessfulToolsSearch" ->
           { [Query |-> "q", GroupID |-> <<>>, ToolNames |-> l, MinMentions |-> k,
              MaxResults |-> n] :
               l \in OptionalLists, k \in {0, 2}, n \in Counts }
      [] m = "RecentContextSearch" ->
           { [Query |-> "q", GroupID |-> g, RecencyWindow |-> w, MaxResults |-> n] :
               g \in OptionalStrings, w \in {"", "24h"}, n \in Counts }
      [] m = "EntityByLabelSearch" ->
           { [Query |-> "q", GroupID |-> <<>>, NodeLabels |-> << <<"SERVICE">> >>,
              EdgeTypes |-> l, MaxResults |-> n] :
               l \in OptionalLists, n \in Counts }

\* A planned call: a method with an argument for it
PlannedCall(m, a) == [method |-> m, arg |-> a]
AllCalls == UNION { {PlannedCall(m, a) : a \in ArgsOf(m)} : m \in Methods }
AdvancedCalls ==
    UNION { {PlannedCall(m, Arg(<<>>, 0, <<r>>)) : r \in AdvancedRequests(m)} :
            m \in AdvancedMethods }

OptionalCalls ==
    UNION { {PlannedCall(m, Arg(<<>>, 0, <<r>>)) : r \in OptionalRequests(m)} :
            m \in BodyMethods \cup AdvancedMethods }

(***************************************************************************)
(* Responses.  A response body is a sequence of chunks of text; reading it *)
(* delivers the first `avail` chunks and then, when avail is less than the *)
(* length, fails (connection reset, timeout while reading the body).       *)
(***************************************************************************)
EmptyBody == <<>>
HTMLBody == <<"<html>", "Bad Gateway</html>">>
NotFoundBody == <<"{\"error\":", "\"not found\"}">>
HealthBody == <<"{\"status\":", "\"ok\"}">>
ResultBody == <<"{\"message\":\"queued\",", "\"success\":true}">>
ResultBadBody == <<"{\"message\":\"queued\",", "\"success\":\"yes\"}">>
EpisodesBody == <<"[{\"uuid\":\"e1\",", "\"content\":\"hello\"}]">>
FactsBody == <<"{\"facts\":[{\"uuid\":\"f1\",", "\"valid_at\":\"2024-01-15T10:00:00Z\"}]}">>

FactBody ==
    <<"{\"uuid\":\"f1\",\"fact\":\"likes\",\"valid_at\":\"2024-01-15T10:00:00Z\",",
      "\"invalid_at\":\"2025-01-15T10:00:00Z\"}">>
NodeBody == <<"{\"uuid\":\"n1\",\"name\":\"node\",", "\"labels\":[\"SERVICE\"]}">>
\* HealthBody and ResultBody with keys added that no response type has
HealthExtraBody == <<"{\"status\":\"ok\",", "\"version\":\"1.2\",\"uptime\":7}">>
ResultExtraBody ==
    <<"{\"message\":\"queued\",\"success\":true,", "\"job\":{\"id\":\"j1\"}}">>
\* HealthBody with a key added that differs from status in case only
HealthCaseBody == <<"{\"status\":\"ok\",", "\"STATUS\":\"down\"}">>

\* Bodies of search responses: three edges with their scores, not in the
\* order of the scores; two nodes with one score; an episode without
\* scores; two communities with their scores; one edge with two scores.
TemporalBody ==
    <<"{\"edges\":[{\"uuid\":\"e1\"},{\"uuid\":\"e2\"},{\"uuid\":\"e3\"}],\"edge_scores\":[40,90,10],",
      "\"nodes\":[{\"uuid\":\"n1\"},{\"uuid\":\"n2\"}],\"node_scores\":[70],\"episodes\":[{\"uuid\":\"p1\"}]}">>
DiverseBody ==
    <<"{\"communities\":[{\"uuid\":\"c1\"},{\"uuid\":\"c2\"}],\"community_mmr_scores\":[30,80],",
      "\"edges\":[{\"uuid\":\"e1\"}],\"edge_mmr_scores\":[55,20]}">>

\* the list of episodes of a group that has none yet
NoEpisodesBody == <<"[]">>

Bodies == {EmptyBody, HTMLBody, NotFoundBody, HealthBody, ResultBody, ResultBadBody,
           EpisodesBody, FactsBody, FactBody, NodeBody, HealthExtraBody,
           ResultExtraBody, HealthCaseBody}

\* What a JSON parser makes of a complete body text: "eof" for no text,
\* "syntax" for text that is no JSON, else the JSON value.
Parsed(what, json) == [what |-> what, json |-> json]
ParseJSON(text) ==
    CASE text = EmptyBody -> Parsed("eof", JNull)
      [] text = HTMLBody -> Parsed("syntax", JNull)
      [] text = NotFoundBody -> Parsed("value", JObj([error |-> JStr("not found")]))
      [] text = HealthBody -> Parsed("value", JObj([status |-> JStr("ok")]))
      [] text = ResultBody ->
           Parsed("value", JObj([message |-> JStr("queued"), success |-> JBool(TRUE)]))
      [] text = ResultBadBody ->
           Parsed("value", JObj([message |-> JStr("queued"), success |-> JStr("yes")]))
      [] text = NoEpisodesBody -> Parsed("value", JArr(<<>>))
      [] text = EpisodesBody ->
           Parsed("value", JArr(<< JObj([uuid |-> JStr("e1"), content |-> JStr("hello")]) >>))
      [] text = FactsBody ->
           Parsed("value",
                  JObj([facts |-> JArr(<< JObj([uuid |-> JStr("f1"),
                                                valid_at |-> JStr("2024-01-15T10:00:00Z")]) >>)]))
      [] text = FactBody ->
           Parsed("value", JObj([uuid |-> JStr("f1"), fact |-> JStr("likes"),
                                 valid_at |-> JStr("2024-01-15T10:00:00Z"),
                                 invalid_at |-> JStr("2025-01-15T10:00:00Z")]))
      [] text = NodeBody ->
           Parsed("value", JObj([uuid |-> JStr("n1"), name |-> JStr("node"),
                                 labels |-> JArr(<<JStr("SERVICE")>>)]))
      [] text = HealthExtraBody ->
           Parsed("value", JObj([status |-> JStr("ok"), version |-> JStr("1.2"),
                                 uptime |-> JNum(7)]))
      [] text = ResultExtraBody ->
           Parsed("value", JObj([message |-> JStr("queued"), success |-> JBool(TRUE),
                                 job |-> JObj([id |-> JStr("j1")])]))
      [] text = HealthCaseBody ->
           Parsed("value", JObj([status |-> JStr("ok"), STATUS |-> JStr("down")]))
      [] text = TemporalBody ->
           Parsed("value",
                  JObj([edges |-> JArr(<< JObj([uuid |-> JStr("e1")]),
                                          JObj([uuid |-> JStr("e2")]),
                                          JObj([uuid |-> JStr("e3")]) >>),
                        edge_scores |-> JArr(<<JNum(40), JNum(90), JNum(10)>>),
                        nodes |-> JArr(<< JObj([uuid |-> JStr("n1")]),
                                          JObj([uuid |-> JStr("n2")]) >>),
                        node_scores |-> JArr(<<JNum(70)>>),
                        episodes |-> JArr(<< JObj([uuid |-> JStr("p1")]) >>)]))
      [] text = DiverseBody ->
           Parsed("value",
                  JObj([communities |-> JArr(<< JObj([uuid |-> JStr("c1")]),
                                                JObj([uuid |-> JStr("c2")]) >>),
                        community_mmr_scores |-> JArr(<<JNum(30), JNum(80)>>),
                        edges |-> JArr(<< JObj([uuid |-> JStr("e1")]) >>),
                        edge_mmr_scores |-> JArr(<<JNum(55), JNum(20)>>)]))
      [] OTHER -> Parsed("syntax", JNull)

StatusCodes == {199, 200, 299, 300, 404, 500}

\* the status codes of the responses without body: 204 No Content too
BodylessStatusCodes == StatusCodes \cup {204}

Response(status, body, avail) == [status |-> status, body |-> body, avail |-> avail]
NoResp == Response(0, <<>>, 0)

\* Every response of the model: each status with each body, read in full or
\* cut after the first chunk.
Responses ==
    { Response(st, b, n) : st \in StatusCodes,
                           b \in Bodies \ {EmptyBody}, n \in {1, 2} } \cup
    { Response(st, EmptyBody, 0) : st \in BodylessStatusCodes }

(***************************************************************************)
(* Errors.  The error a call returns is [kind, code, text, cause]: kind    *)
(* names the fmt.Errorf format of client.go that produced it, code and     *)
(* text are the %d and %s of the status error, cause the error wrapped     *)
(* with %w.                                                                *)
(***************************************************************************)
Err(kind, code, text, cause) == [kind |-> kind, code |-> code, text |-> text, cause |-> cause]
NoErr == Err("nil", 0, <<>>, "none")

NoRequest == [verb |-> "", url |-> <<>>, body |-> <<>>, contentType |-> <<>>]

\* The locals of one call of an endpoint method and of the run of do in it.
IdleCall ==
    [pc |-> "idle", method |-> "none", arg |-> NoArg,
     jsonData |-> <<>>,      \* the marshalled body, <<>> when there is none
     req |-> NoRequest,      \* the *http.Request built
     sends |-> 0,            \* how often c.httpClient.Do was invoked
     hasResp |-> FALSE,      \* Do returned a response
     resp |-> NoResp,        \* the response Do returned
     closes |-> 0,           \* how often resp.Body.Close was called
     dest |-> <<>>,          \* the method's `var result`
     err |-> NoErr,          \* the error do returns
     result |-> <<>>]        \* the first value the method returns

\* client.go:95-96 and alike: var result T; c.do(verb, path, body, &result)
NewCall(m, a) ==
    [IdleCall EXCEPT !.pc = "marshal", !.method = m, !.arg = a,
                     !.dest = Zero(ResultKind(m))]

\* an executor that notes the serialization error and goes on
OnMarshalErrorGoesOn(cl) ==
    [cl EXCEPT !.pc = "newreq", !.err = Err("marshal", 0, <<>>, "time-range")]

\* client.go:57-59
OnMarshalError(cl) ==
    [cl EXCEPT !.pc = "doret", !.err = Err("marshal", 0, <<>>, "time-range")]

\* client.go:54-61
MarshalStep(cl) ==
    IF cl.arg.body = <<>>
    THEN [cl EXCEPT !.pc = "newreq"]
    ELSE LET j == MarshalValue(KStruct(RequestType(cl.method)), cl.arg.body[1])
         IN IF j.t = "error"
            THEN OnMarshalError(cl)
            ELSE [cl EXCEPT !.pc = "newreq", !.jsonData = <<j>>]

\* a NewRequest that takes any text for a URL
URLParsesAlways(url) == TRUE

\* http.NewRequest parses the URL: the unparsable base URL makes it fail
URLParses(url) == url[1] # BadURL
\* http.Client.Do refuses a URL without scheme before any network activity
HasScheme(url) == url[1] = GoodURL

\* client.go:65-67
OnCreateError(cl) ==
    [cl EXCEPT !.pc = "doret", !.err = Err("create", 0, <<>>, "url-parse")]

\* a content type set on every POST, with or without body
ContentTypeOfPost(cl) ==
    IF Verb(cl.method) = "POST" THEN <<"application/json">> ELSE <<>>

\* client.go:69-71
ContentType(cl) == IF cl.arg.body # <<>> THEN <<"application/json">> ELSE <<>>

\* client.go:63-71
NewRequestStep(cl, baseURL) ==
    LET reqURL == <<baseURL>> \o Path(cl.method, cl.arg)
    IN IF ~URLParses(reqURL)
       THEN OnCreateError(cl)
       ELSE [cl EXCEPT !.pc = "do",
                       !.req = [verb |-> Verb(cl.method), url |-> reqURL,
                                body |-> cl.jsonData, contentType |-> ContentType(cl)]]

\* an executor that gives a transport without timeout the default one
HeapAfterDoSetsDefault(heap, ref) ==
    IF heap[ref] = 0 THEN [heap EXCEPT ![ref] = DefaultTimeout] ELSE heap

\* client.go:73: c.httpClient.Do reads the client and leaves the heap of
\* http.Client objects as it is
HeapAfterDo(heap, ref) == heap

\* an executor that tries the round trip once more after a transport error
OnTransportErrorRetries(cl, cause) ==
    IF cl.sends < 2
    THEN [cl EXCEPT !.pc = "do"]
    ELSE [cl EXCEPT !.pc = "doret", !.err = Err("perform", 0, <<>>, cause)]

\* a transport error formatted into the message, not wrapped
OnTransportErrorUnwrapped(cl, cause) ==
    [cl EXCEPT !.pc = "doret", !.err = Err("perform", 0, <<>>, "none")]

\* client.go:74-76
OnTransportError(cl, cause) ==
    [cl EXCEPT !.pc = "doret", !.err = Err("perform", 0, <<>>, cause)]

\* a status check that lets 300 through
StatusFailsAbove300(code) == code < 200 \/ code > 300

\* client.go:79
StatusFails(code) == code < 200 \/ code >= 300

\* client.go:80: bodyBytes, _ := io.ReadAll(resp.Body): the bytes read
\* before the end or the read error, the error itself being dropped
ReadAll(resp) == SubSeq(resp.body, 1, resp.avail)

\* client.go:81
StatusError(resp) == Err("status", resp.status, ReadAll(resp), "none")

\* a status check that decodes the body of a failed response into the
\* destination before it returns the status error
StatusStepDecodesFirst(cl) ==
    LET p == ParseJSON(cl.resp.body)
        d == IF cl.resp.avail = Len(cl.resp.body) /\ p.what = "value"
             THEN Unmarshal(ResultKind(cl.method), p.json, cl.dest).v
             ELSE cl.dest
    IN IF StatusFails(cl.resp.status)
       THEN [cl EXCEPT !.pc = "doret", !.err = StatusError(cl.resp), !.dest = d]
       ELSE [cl EXCEPT !.pc = "decode"]

\* client.go:79-82
StatusStep(cl) ==
    IF StatusFails(cl.resp.status)
    THEN [cl EXCEPT !.pc = "doret", !.err = StatusError(cl.resp)]
    ELSE [cl EXCEPT !.pc = "decode"]

\* client.go:85: json.NewDecoder(resp.Body).Decode(result).  The decoder
\* buffers one whole JSON value before it stores anything, so a read error
\* or a syntax error leaves the destination untouched; a type error is
\* reported after the other fields have been stored.
DecodeBody(kind, resp, dest) ==
    IF resp.avail < Len(resp.body)
    THEN [v |-> dest, err |-> Err("decode", 0, <<>>, "read")]
    ELSE LET p == ParseJSON(resp.body)
         IN IF p.what # "value"
            THEN [v |-> dest, err |-> Err("decode", 0, <<>>, p.what)]
            ELSE LET u == Unmarshal(kind, p.json, dest)
                 IN [v |-> u.v,
                     err |-> IF u.ok THEN NoErr ELSE Err("decode", 0, <<>>, "type")]

\* a do that is given no destination by the methods that return a Result
DecodeStepSkipsResult(cl) ==
    LET d == DecodeBody(ResultKind(cl.method), cl.resp, cl.dest)
    IN IF ResultKind(cl.method) = KStruct("Result")
       THEN [cl EXCEPT !.pc = "doret"]
       ELSE [cl EXCEPT !.pc = "doret", !.dest = d.v, !.err = d.err]

\* client.go:84-90
DecodeStep(cl) ==
    LET d == DecodeBody(ResultKind(cl.method), cl.resp, cl.dest)
    IN [cl EXCEPT !.pc = "doret", !.dest = d.v, !.err = d.err]

\* a Close placed at the end of do instead of in a defer
ClosesOnSuccessOnly(cl) == IF cl.hasResp /\ cl.err = NoErr THEN 1 ELSE 0

\* client.go:77: defer resp.Body.Close() runs once when do returns, on the
\* paths that passed the defer statement
DeferredCloses(cl) == IF cl.hasResp THEN 1 ELSE 0

\* a method that returns &result also next to an error
MethodResultKeepsDest(m, dest, err) ==
    IF m = "GetEpisodes" THEN dest ELSE <<dest>>

\* client.go:96-99 and alike: nil on error, else &result (GetEpisodes: the
\* slice itself)
MethodResult(m, dest, err) ==
    IF err # NoErr THEN <<>>
    ELSE IF m = "GetEpisodes" THEN dest ELSE <<dest>>

(***************************************************************************)
(* The network side of a call: how many requests of the call reached the   *)
(* server, the request the server saw, the response it sent and what ends  *)
(* the reading of its body early.                                          *)
(***************************************************************************)
IdleNet ==
    [received |-> 0, seen |-> NoRequest, replied |-> FALSE, reply |-> NoResp,
     cut |-> "none"]         \* why reading the body of the reply fails

\* a client that keeps the last response in a field shared by all calls
DoResultShared(nt, c) ==
    LET others == {d \in DOMAIN nt : d # c /\ nt[d].replied}
    IN IF others = {} THEN nt[c].reply ELSE nt[CHOOSE d \in others : TRUE].reply

\* client.go:73: the response Do hands back to a call is the reply to the
\* request that call passed in
DoResult(nt, c) == nt[c].reply

(***************************************************************************)
(* State.                                                                  *)
(***************************************************************************)
\* goroutines that call endpoint methods on the one Client concurrently
NumCallers == 2
Callers == 1..NumCallers

VARIABLES
    httpTimeout,   \* heap: http.Client reference -> its Timeout field
    built,         \* SpecNew: the Clients NewClient has returned, in order
    ctor,          \* SpecNew: the latest run of NewClient
    crashed,       \* the program panicked
    client,        \* Spec, SpecConc: the Client the calls are made on
    call,          \* per caller: the locals of its call in progress
    net,           \* per caller: the network side of its call in progress
    main           \* SpecPoll: the locals of the example program's main

vars == <<httpTimeout, built, ctor, crashed, client, call, net, main>>

\* The locals of main in the polling loop of the basic example
\* (unnamed/part_002:99-120).
NoMain ==
    [pc |-> "none",
     attempt |-> 0,          \* the loop variable
     calls |-> 0,            \* how often GetEpisodes was called
     slept |-> 0,            \* seconds spent in time.Sleep
     episodes |-> <<>>,      \* var episodes []graphiti.Episode
     err |-> NoErr]

NoClient == [baseURL |-> EmptyURL, httpClient |-> NilRef]

(***************************************************************************)
(* SpecNew: a caller builds Clients one after the other, all of them able  *)
(* to share the caller's http.Client.                                      *)
(***************************************************************************)
\* No run of NewClient yet
NoCtor == [n |-> 0, baseURL |-> EmptyURL, opts |-> <<>>, before |-> InitHeap]

InitNew ==
    /\ httpTimeout = InitHeap
    /\ built = <<>>
    /\ ctor = NoCtor
    /\ crashed = FALSE
    /\ client = NoClient
    /\ call = [c \in Callers |-> IdleCall]
    /\ net = [c \in Callers |-> IdleNet]
    /\ main = NoMain

\* One run of NewClient(baseURL, opts...) that returns.  ctor keeps the
\* arguments of the run and the heap as it was at the call.
NewClientReturns ==
    /\ ~crashed
    /\ Len(built) < MaxClients
    /\ \E baseURL \in {GoodURL, BadURL}, opts \in OptionLists :
         LET r == NewClient(baseURL, opts, Len(built) + 1, httpTimeout) IN
           /\ ~r.panicked
           /\ httpTimeout' = HeapAtReturn(r.heap, r.client, Len(built) + 1)
           /\ built' = Append(built, r.client)
           /\ ctor' = [n |-> Len(built) + 1, baseURL |-> baseURL, opts |-> opts,
                       before |-> httpTimeout]
    /\ UNCHANGED <<main, crashed, client, call, net>>

\* One run of NewClient in which WithTimeout meets a nil httpClient.
NewClientPanics ==
    /\ ~crashed
    /\ Len(built) < MaxClients
    /\ \E baseURL \in {GoodURL, BadURL}, opts \in OptionLists :
         LET r == NewClient(baseURL, opts, Len(built) + 1, httpTimeout) IN
           /\ r.panicked
           /\ httpTimeout' = r.heap
    /\ crashed' = TRUE
    /\ UNCHANGED <<main, built, ctor, client, call, net>>

NextNew == NewClientReturns \/ NewClientPanics

SpecNew == InitNew /\ [][NextNew]_vars

(***************************************************************************)
(* The calls.  Every action is one step of one caller's call.              *)
(***************************************************************************)
\* A caller enters an endpoint method, one of the planned calls W.
CallStart(c, W) ==
    /\ ~crashed
    /\ call[c].pc = "idle"
    /\ \E w \in W : call' = [call EXCEPT ![c] = NewCall(w.method, w.arg)]
    /\ UNCHANGED <<main, httpTimeout, built, ctor, crashed, client, net>>

\* client.go:54-61
DoMarshal(c) ==
    /\ ~crashed
    /\ call[c].pc = "marshal"
    /\ call' = [call EXCEPT ![c] = MarshalStep(call[c])]
    /\ UNCHANGED <<main, httpTimeout, built, ctor, crashed, client, net>>

\* client.go:63-71
DoNewRequest(c) ==
    /\ ~crashed
    /\ call[c].pc = "newreq"
    /\ call' = [call EXCEPT ![c] = NewRequestStep(call[c], client.baseURL)]
    /\ UNCHANGED <<main, httpTimeout, built, ctor, crashed, client, net>>

\* client.go:73, the call of c.httpClient.Do with a non-nil httpClient
DoSend(c) ==
    /\ ~crashed
    /\ call[c].pc = "do"
    /\ client.httpClient # NilRef
    /\ call' = [call EXCEPT ![c].pc = "roundtrip", ![c].sends = @ + 1]
    /\ httpTimeout' = HeapAfterDo(httpTimeout, client.httpClient)
    /\ UNCHANGED <<main, built, ctor, crashed, client, net>>

\* client.go:73 with a nil httpClient: the method call dereferences nil
DoSendPanics(c) ==
    /\ ~crashed
    /\ call[c].pc = "do"
    /\ client.httpClient = NilRef
    /\ call' = [call EXCEPT ![c].pc = "panic"]
    /\ crashed' = TRUE
    /\ UNCHANGED <<main, httpTimeout, built, ctor, client, net>>

\* a transport that never arms the timer of the http.Client
TransportCausesNoTimer(url, timeout) ==
    IF url[1] # GoodURL THEN {"scheme"} ELSE {"refused"}

\* The causes for which the round trip can fail: no scheme in the URL (met
\* before any network activity), a refused connection, and the timeout when
\* the http.Client has one.
TransportCauses(url, timeout) ==
    IF ~HasScheme(url) THEN {"scheme"}
    ELSE {"refused"} \cup (IF timeout > 0 THEN {"timeout"} ELSE {})

\* Do returns an error (client.go:74-76).  Unless the URL lacks a scheme the
\* request may or may not have reached the server before.
RoundTripFails(c, causes) ==
    /\ ~crashed
    /\ call[c].pc = "roundtrip"
    /\ \E cause \in TransportCauses(call[c].req.url, httpTimeout[client.httpClient])
                        \cap causes,
          reached \in BOOLEAN :
         /\ reached => cause = "timeout"
         /\ call' = [call EXCEPT ![c] = OnTransportError(call[c], cause)]
         /\ net' = IF reached
                   THEN [net EXCEPT ![c].received = @ + 1, ![c].seen = call[c].req]
                   ELSE net
    /\ UNCHANGED <<main, httpTimeout, built, ctor, crashed, client>>

TransportFails(c) == RoundTripFails(c, {"scheme", "refused", "timeout"})

\* The failures of Do that need nothing from the network: the URL without
\* scheme is refused at once, and the timeout elapses when there is one.
TransportGivesUp(c) == RoundTripFails(c, {"scheme", "timeout"})

\* Why the body of response r cannot be read to its end: not at all when
\* all of it arrives, else the connection is reset or the server sends
\* nothing more; then the timeout elapses when the http.Client has one (it
\* runs until the body is read), and without one the read stalls for ever.
ReadCauses(r, timeout) ==
    IF r.avail = Len(r.body) THEN {"none"}
    ELSE {"reset"} \cup (IF timeout > 0 THEN {"timeout"} ELSE {"stall"})

\* the read of the body that the step at pc makes never returns
ReadBlocks(cl, nt) ==
    /\ nt.cut = "stall"
    /\ cl.pc = "status" => StatusFails(cl.resp.status)

\* The server answers with one of the responses R and Do returns it
\* (client.go:73,77).
TransportResponds(c, R) ==
    /\ ~crashed
    /\ call[c].pc = "roundtrip"
    /\ HasScheme(call[c].req.url)
    /\ \E r \in R : \E cut \in ReadCauses(r, httpTimeout[client.httpClient]) :
         LET nt == [net EXCEPT ![c].received = @ + 1, ![c].seen = call[c].req,
                               ![c].replied = TRUE, ![c].reply = r, ![c].cut = cut]
         IN /\ net' = nt
            /\ call' = [call EXCEPT ![c].pc = "status", ![c].hasResp = TRUE,
                                    ![c].resp = DoResult(nt, c)]
    /\ UNCHANGED <<main, httpTimeout, built, ctor, crashed, client>>

\* client.go:79-82
DoCheckStatus(c) ==
    /\ ~crashed
    /\ call[c].pc = "status"
    /\ ~ReadBlocks(call[c], net[c])
    /\ call' = [call EXCEPT ![c] = StatusStep(call[c])]
    /\ UNCHANGED <<main, httpTimeout, built, ctor, crashed, client, net>>

\* client.go:84-90
DoDecode(c) ==
    /\ ~crashed
    /\ call[c].pc = "decode"
    /\ ~ReadBlocks(call[c], net[c])
    /\ call' = [call EXCEPT ![c] = DecodeStep(call[c])]
    /\ UNCHANGED <<main, httpTimeout, built, ctor, crashed, client, net>>

\* do returns (its deferred Close runs) and the method returns to its
\* caller (client.go:96-99 and alike).
MethodReturns(c) ==
    /\ ~crashed
    /\ call[c].pc = "doret"
    /\ call' = [call EXCEPT ![c].pc = "returned",
                            ![c].closes = @ + DeferredCloses(call[c]),
                            ![c].result = MethodResult(call[c].method, call[c].dest,
                                                       call[c].err)]
    /\ UNCHANGED <<main, httpTimeout, built, ctor, crashed, client, net>>

\* The caller has looked at what the method returned and is free to call
\* again.
CallerMovesOn(c) ==
    /\ ~crashed
    /\ call[c].pc = "returned"
    /\ call' = [call EXCEPT ![c] = IdleCall]
    /\ net' = [net EXCEPT ![c] = IdleNet]
    /\ UNCHANGED <<main, httpTimeout, built, ctor, crashed, client>>

(***************************************************************************)
(* The polling loop of the basic example (unnamed/part_002:97-120): main   *)
(* is caller 1 and calls GetEpisodes until it gets episodes or has tried   *)
(* MaxAttempts times.                                                      *)
(***************************************************************************)
\* len(episodes)
Count(slice) == IF slice = <<>> THEN 0 ELSE Len(slice[1])

\* a loop that sleeps after every attempt without episodes, the last too
AfterAttemptSleepsAlways(m, episodes, err) ==
    LET got == [m EXCEPT !.episodes = episodes, !.err = err]
    IN IF err = NoErr /\ Count(episodes) > 0
       THEN [got EXCEPT !.pc = "after"]
       ELSE [got EXCEPT !.pc = "loop", !.slept = @ + PollInterval, !.attempt = @ + 1]

\* part_002:105-116: the assignment of what GetEpisodes returned, the
\* warning or the break, the sleep before another attempt and attempt++
AfterAttempt(m, episodes, err) ==
    LET got == [m EXCEPT !.episodes = episodes, !.err = err]
    IN IF err = NoErr /\ Count(episodes) > 0
       THEN [got EXCEPT !.pc = "after"]
       ELSE IF m.attempt < MaxAttempts
            THEN [got EXCEPT !.pc = "loop", !.slept = @ + PollInterval,
                             !.attempt = @ + 1]
            ELSE [got EXCEPT !.pc = "loop", !.attempt = @ + 1]

\* the group the example polls for, a fresh UUID
GroupId == <<"a">>

\* part_002:103-105: the loop condition holds and main calls GetEpisodes
MainPolls ==
    /\ ~crashed
    /\ main.pc = "loop"
    /\ main.attempt <= MaxAttempts
    /\ call[1].pc = "idle"
    /\ call' = [call EXCEPT ![1] = NewCall("GetEpisodes", Arg(GroupId, 10, <<>>))]
    /\ main' = [main EXCEPT !.pc = "call", !.calls = @ + 1]
    /\ UNCHANGED <<httpTimeout, built, ctor, crashed, client, net>>

\* part_002:105-116: GetEpisodes has returned
MainGetsOutcome ==
    /\ ~crashed
    /\ main.pc = "call"
    /\ call[1].pc = "returned"
    /\ main' = AfterAttempt(main, call[1].result, call[1].err)
    /\ call' = [call EXCEPT ![1] = IdleCall]
    /\ net' = [net EXCEPT ![1] = IdleNet]
    /\ UNCHANGED <<httpTimeout, built, ctor, crashed, client>>

\* part_002:103: the loop condition fails
MainLeavesLoop ==
    /\ ~crashed
    /\ main.pc = "loop"
    /\ main.attempt > MaxAttempts
    /\ main' = [main EXCEPT !.pc = "after"]
    /\ UNCHANGED <<httpTimeout, built, ctor, crashed, client, call, net>>

\* part_002:118-124: log.Fatalf without episodes, else on to the search
MainEnds ==
    /\ ~crashed
    /\ main.pc = "after"
    /\ main' = [main EXCEPT !.pc = IF Count(main.episodes) = 0 THEN "fatal" ELSE "search"]
    /\ UNCHANGED <<httpTimeout, built, ctor, crashed, client, call, net>>

(***************************************************************************)
(* Spec: one caller makes calls, one after the other, on a Client that     *)
(* NewClient returned; every method, argument and response of the model.   *)
(***************************************************************************)
InitClientAt(urls, optLists, m) ==
    /\ main = m
    /\ built = <<>>
    /\ ctor = NoCtor
    /\ crashed = FALSE
    /\ call = [c \in Callers |-> IdleCall]
    /\ net = [c \in Callers |-> IdleNet]
    /\ \E baseURL \in urls, opts \in optLists :
         LET r == NewClient(baseURL, opts, 1, InitHeap) IN
           /\ ~r.panicked
           /\ client = r.client
           /\ httpTimeout = HeapAtReturn(r.heap, r.client, 1)

InitClient(urls, optLists) == InitClientAt(urls, optLists, NoMain)

Init == InitClient(BaseURLs, OptionLists)

Next ==
    \/ CallStart(1, AllCalls)
    \/ DoMarshal(1)
    \/ DoNewRequest(1)
    \/ DoSend(1)
    \/ DoSendPanics(1)
    \/ TransportFails(1)
    \/ TransportResponds(1, Responses)
    \/ DoCheckStatus(1)
    \/ DoDecode(1)
    \/ MethodReturns(1)
    \/ CallerMovesOn(1)

Spec == Init /\ [][Next]_vars

(***************************************************************************)
(* SpecConc: all callers call concurrently on the one Client, with fewer   *)
(* planned calls and responses.                                            *)
(***************************************************************************)
ConcCalls ==
    { PlannedCall("HealthCheck", NoArg),
      PlannedCall("GetEpisodes", Arg(<<"a", "/", "b">>, 10, <<>>)),
      PlannedCall("AddMessages",
                  Arg(<<>>, 0, << [GroupID |-> "g1", Messages |-> << <<AMessage, BadMessage>> >>,
                                   Observation |-> <<>>] >>)) }

ConcResponses ==
    { Response(200, HealthBody, 2), Response(200, EpisodesBody, 2),
      Response(404, NotFoundBody, 2), Response(500, HTMLBody, 1) }

ConcOptionLists ==
    { <<>>, <<WithHTTPClient(CallerRef)>>, <<WithHTTPClient(NilRef)>>,
      <<WithHTTPClient(CallerRef), WithTimeout(60)>> }

InitConc == InitClient({GoodURL}, ConcOptionLists)

NextConc ==
    \E c \in Callers :
        \/ CallStart(c, ConcCalls)
        \/ DoMarshal(c)
        \/ DoNewRequest(c)
        \/ DoSend(c)
        \/ DoSendPanics(c)
        \/ TransportFails(c)
        \/ TransportResponds(c, ConcResponses)
        \/ DoCheckStatus(c)
        \/ DoDecode(c)
        \/ MethodReturns(c)
        \/ CallerMovesOn(c)

SpecConc == InitConc /\ [][NextConc]_vars

(***************************************************************************)
(* SpecLive: one caller, fewer planned calls and responses, and the steps  *)
(* that are bound to happen.  The code of do runs on once it is entered    *)
(* (the goroutine is scheduled), and the timer of the http.Client fires    *)
(* when it is armed; the server and the network owe nothing, and neither   *)
(* does the caller, who may never call again.                              *)
(***************************************************************************)
LiveResponses == ConcResponses \cup {Response(200, HealthBody, 1)}

InitLive == InitClient(BaseURLs, ConcOptionLists)

NextLive ==
    \/ CallStart(1, ConcCalls)
    \/ DoMarshal(1)
    \/ DoNewRequest(1)
    \/ DoSend(1)
    \/ DoSendPanics(1)
    \/ TransportFails(1)
    \/ TransportResponds(1, LiveResponses)
    \/ DoCheckStatus(1)
    \/ DoDecode(1)
    \/ MethodReturns(1)
    \/ CallerMovesOn(1)

Fairness ==
    /\ WF_vars(DoMarshal(1))
    /\ WF_vars(DoNewRequest(1))
    /\ WF_vars(DoSend(1))
    /\ WF_vars(TransportGivesUp(1))
    /\ WF_vars(DoCheckStatus(1))
    /\ WF_vars(DoDecode(1))
    /\ WF_vars(MethodReturns(1))

SpecLive == InitLive /\ [][NextLive]_vars /\ Fairness

(***************************************************************************)
(* SpecAdvanced: one caller makes the advanced searches.                   *)
(***************************************************************************)
AdvancedResponses ==
    { Response(st, b, n) : st \in {200, 500},
                           b \in {TemporalBody, DiverseBody, HTMLBody}, n \in {1, 2} }

InitAdvanced == InitClient({GoodURL}, ConcOptionLists)

NextAdvanced ==
    \/ CallStart(1, AdvancedCalls)
    \/ DoMarshal(1)
    \/ DoNewRequest(1)
    \/ DoSend(1)
    \/ DoSendPanics(1)
    \/ TransportFails(1)
    \/ TransportResponds(1, AdvancedResponses)
    \/ DoCheckStatus(1)
    \/ DoDecode(1)
    \/ MethodReturns(1)
    \/ CallerMovesOn(1)

SpecAdvanced == InitAdvanced /\ [][NextAdvanced]_vars

(***************************************************************************)
(* SpecOptional: one caller makes the calls that send a request structure, *)
(* with every setting of the optional fields, on a Client with the default *)
(* http.Client.                                                            *)
(***************************************************************************)
OptionalResponses == {Response(200, ResultBody, 1), Response(500, HTMLBody, 1)}

InitOptional == InitClient({GoodURL}, {<<>>})

NextOptional ==
    \/ CallStart(1, OptionalCalls)
    \/ DoMarshal(1)
    \/ DoNewRequest(1)
    \/ DoSend(1)
    \/ TransportFails(1)
    \/ TransportResponds(1, OptionalResponses)
    \/ DoCheckStatus(1)
    \/ DoDecode(1)
    \/ MethodReturns(1)
    \/ CallerMovesOn(1)

SpecOptional == InitOptional /\ [][NextOptional]_vars

(***************************************************************************)
(* SpecPoll: the example program from its polling loop on, on the Client   *)
(* it built with WithTimeout(60) (unnamed/part_002:34).  The steps of main *)
(* and of do run on, and the timer of the http.Client fires; the server    *)
(* owes nothing.                                                           *)
(***************************************************************************)
PollResponses ==
    { Response(200, EpisodesBody, 2), Response(200, EpisodesBody, 1),
      Response(200, NoEpisodesBody, 1), Response(500, HTMLBody, 1) }

InitPoll ==
    InitClientAt({GoodURL}, {<<WithTimeout(60)>>},
                 [NoMain EXCEPT !.pc = "loop", !.attempt = 1])

NextPoll ==
    \/ MainPolls
    \/ DoMarshal(1)
    \/ DoNewRequest(1)
    \/ DoSend(1)
    \/ TransportFails(1)
    \/ TransportResponds(1, PollResponses)
    \/ DoCheckStatus(1)
    \/ DoDecode(1)
    \/ MethodReturns(1)
    \/ MainGetsOutcome
    \/ MainLeavesLoop
    \/ MainEnds

FairnessPoll ==
    /\ Fairness
    /\ WF_vars(MainPolls)
    /\ WF_vars(MainGetsOutcome)
    /\ WF_vars(MainLeavesLoop)
    /\ WF_vars(MainEnds)

SpecPoll == InitPoll /\ [][NextPoll]_vars /\ FairnessPoll

(***************************************************************************)
(* Properties.                                                             *)
(***************************************************************************)
Returned(c) == call[c].pc = "returned"
Is2xx(st) == 200 <= st /\ st < 300

\* C1: whenever the transport delivered a response to a call, the call
\* returns an API status error exactly if the status code of that response
\* is outside [200, 300), and the error then carries that status code.
C1_StatusErrorIffNon2xx ==
    \A c \in Callers :
        (Returned(c) /\ net[c].replied) =>
            /\ (call[c].err.kind = "status") <=> ~Is2xx(net[c].reply.status)
            /\ call[c].err.kind = "status" => call[c].err.code = net[c].reply.status

\* C1 witness: a call answered with status 300 has returned a status error
\* carrying 300.
C1_Witness ==
    \E c \in Callers :
        /\ Returned(c) /\ net[c].replied
        /\ net[c].reply.status = 300
        /\ call[c].err.kind = "status" /\ call[c].err.code = 300

\* C2: whenever a call returns a status error, the text in the error is the
\* whole body the server sent, whatever the outcome of reading it.
C2_StatusErrorHasFullBody ==
    \A c \in Callers :
        (Returned(c) /\ call[c].err.kind = "status") =>
            call[c].err.text = net[c].reply.body

\* The optional fields of a request structure are its pointer-typed ones.
\* UnsetOmitted holds when every such field that is nil in the value v has
\* no key in the JSON object j.
UnsetOmitted(name, v, j) ==
    LET fs == Fields(name)
    IN \A i \in 1..Len(fs) :
          (fs[i].kind.k = "ptr" /\ v[fs[i].name] = <<>>) => fs[i].key \notin DOMAIN j.v

\* C3: in every request body that reached the server, no optional field
\* that the caller left unset appears as a key, neither in the request
\* object nor in the messages it lists.
C3_UnsetOptionalOmitted ==
    \A c \in Callers :
        (net[c].received > 0 /\ call[c].arg.body # <<>>) =>
            LET v == call[c].arg.body[1]
                j == net[c].seen.body[1]
            IN /\ UnsetOmitted(RequestType(call[c].method), v, j)
               /\ ("Messages" \in DOMAIN v /\ v.Messages # <<>>) =>
                     \A i \in 1..Len(v.Messages[1]) :
                        UnsetOmitted("Message", v.Messages[1][i], j.v["messages"].v[i])

\* C4: a call that returns an error returns an absent result, and every
\* failure makes the call return an error: no response at all, a status
\* outside 2xx, or a 2xx body that is cut, empty or no JSON.
C4_ErrorMeansNoResult ==
    \A c \in Callers :
        Returned(c) =>
            /\ call[c].err # NoErr => call[c].result = <<>>
            /\ ~net[c].replied => call[c].err # NoErr
            /\ (net[c].replied /\ ~Is2xx(net[c].reply.status)) => call[c].err # NoErr
            /\ (net[c].replied /\ (net[c].reply.avail < Len(net[c].reply.body)
                                   \/ ParseJSON(net[c].reply.body).what # "value"))
                  => call[c].err # NoErr

\* C4 witness: decoding failed after a field of the destination had been
\* filled in, and the method returned the error with an absent result.
C4_Witness ==
    \E c \in Callers :
        /\ Returned(c)
        /\ call[c].err.kind = "decode"
        /\ call[c].dest # Zero(ResultKind(call[c].method))
        /\ call[c].result = <<>>

\* C5: a call invokes httpClient.Do at most once; a call that holds a
\* response has sent its request and the server replied to it in this call;
\* a call that returns a transport, status or decode error has sent once.
C5_AtMostOneSend ==
    \A c \in Callers :
        /\ call[c].sends <= 1
        /\ call[c].hasResp => (call[c].sends = 1 /\ net[c].replied)
        /\ (Returned(c) /\ call[c].err.kind \in {"perform", "status", "decode"})
              => call[c].sends = 1

\* C5 witness: a call whose round trip failed has returned after one send.
C5_Witness ==
    \E c \in Callers :
        Returned(c) /\ call[c].err.kind = "perform" /\ call[c].sends = 1

\* C6: a call whose error is a serialization or request construction error
\* never invoked httpClient.Do, and nothing of it reached the server.
C6_NoSendAfterEarlyFailure ==
    \A c \in Callers :
        call[c].err.kind \in {"marshal", "create"} =>
            call[c].sends = 0 /\ net[c].received = 0

\* C6 witness: a call has returned a serialization error.
C6_Witness ==
    \E c \in Callers :
        Returned(c) /\ call[c].err.kind = "marshal" /\ call[c].sends = 0

\* C7: the response body is never closed twice, and a call that has
\* returned closed it exactly once if the transport returned a response
\* (and had nothing to close otherwise).
C7_BodyClosedOnce ==
    \A c \in Callers :
        /\ call[c].closes <= 1
        /\ Returned(c) => call[c].closes = (IF net[c].replied THEN 1 ELSE 0)

\* C7 witness: a call has returned a decode error or a status error with
\* the body closed once.
C7_Witness ==
    \E c \in Callers :
        /\ Returned(c)
        /\ call[c].err.kind \in {"decode", "status"}
        /\ call[c].closes = 1

\* The position of the last option of the given name in opts, 0 for none
LastOpt(opts, name) ==
    LET S == {i \in 1..Len(opts) : opts[i].opt = name}
    IN IF S = {} THEN 0 ELSE CHOOSE i \in S : \A k \in S : k <= i

\* The transport the Client under construction holds when option i of the
\* n-th run of NewClient is applied (i = Len(opts) + 1: when it returns)
InstalledAt(opts, i, n) ==
    LET h == LastOpt(SubSeq(opts, 1, i - 1), "WithHTTPClient")
    IN IF h = 0 THEN DefaultRef(n) ELSE opts[h].ref

\* The WithTimeout options of the list that were applied while h was the
\* transport installed
WritersOf(opts, h, n) ==
    {i \in 1..Len(opts) : opts[i].opt = "WithTimeout" /\ InstalledAt(opts, i, n) = h}

\* C8 as claimed: the Client NewClient has just returned has the base URL
\* given and the transport of the last WithHTTPClient option (the default
\* one without any); a WithTimeout before the last WithHTTPClient is
\* discarded, so the
\* timeout of the transport is the one of the last WithTimeout if it comes
\* after the last WithHTTPClient, else 30 for the default transport and the
\* timeout the transport had before NewClient was called otherwise.
C8_EarlierTimeoutDiscarded ==
    (ctor.n > 0 /\ ~crashed) =>
        LET lastH == LastOpt(ctor.opts, "WithHTTPClient")
            lastT == LastOpt(ctor.opts, "WithTimeout")
            h == IF lastH = 0 THEN DefaultRef(ctor.n) ELSE ctor.opts[lastH].ref
        IN /\ built[ctor.n].baseURL = ctor.baseURL
           /\ built[ctor.n].httpClient = h
           /\ h # NilRef =>
                 httpTimeout[h] = (IF lastT > lastH THEN ctor.opts[lastT].timeout
                                  ELSE IF lastH = 0 THEN 30
                                  ELSE ctor.before[h])

\* C8 amended: the Client NewClient has just returned has the base URL
\* given and the transport of the last WithHTTPClient option (the default
\* one without any); the timeout of that transport is the one of the last WithTimeout that was
\* applied while this same http.Client was installed, be it before or after
\* the last WithHTTPClient; without such a WithTimeout it is 30 for the
\* default transport and the timeout the http.Client had before otherwise.
C8_OptionsFoldInOrder ==
    (ctor.n > 0 /\ ~crashed) =>
        LET h == InstalledAt(ctor.opts, Len(ctor.opts) + 1, ctor.n)
            W == WritersOf(ctor.opts, h, ctor.n)
        IN /\ built[ctor.n].baseURL = ctor.baseURL
           /\ built[ctor.n].httpClient = h
           /\ h # NilRef =>
                 httpTimeout[h] = (IF W # {}
                                  THEN ctor.opts[CHOOSE i \in W : \A k \in W : k <= i].timeout
                                  ELSE IF h = DefaultRef(ctor.n) THEN 30
                                  ELSE ctor.before[h])

\* C8 witness: NewClient(url, WithHTTPClient(h), WithTimeout(60),
\* WithHTTPClient(h)) of a caller whose h had no timeout returned a Client
\* with h as transport and timeout 60.
C8_Witness ==
    /\ ctor.opts = <<WithHTTPClient(CallerRef), WithTimeout(60), WithHTTPClient(CallerRef)>>
    /\ ctor.before[CallerRef] = 0
    /\ built[ctor.n].httpClient = CallerRef
    /\ httpTimeout[CallerRef] = 60

\* C9: no step of any call changes the Client's base URL, its transport
\* reference or the timeout of any http.Client.
C9_CallsLeaveClientUnchanged ==
    [][client' = client /\ httpTimeout' = httpTimeout]_vars

\* C9 witness: a call that sent its request has returned, on a Client whose
\* transport has the default timeout.
C9_Witness ==
    \E c \in Callers :
        /\ Returned(c) /\ call[c].sends = 1
        /\ client.httpClient # NilRef
        /\ httpTimeout[client.httpClient] = DefaultTimeout

\* What a call of method m returns when the response to its request is r
OutcomeOf(m, r) ==
    IF StatusFails(r.status)
    THEN [err |-> StatusError(r), result |-> <<>>]
    ELSE LET d == DecodeBody(ResultKind(m), r, Zero(ResultKind(m)))
         IN [err |-> d.err, result |-> MethodResult(m, d.v, d.err)]

\* C10: under every interleaving, the request the server saw from a call is
\* the one built from that call's own method and argument, and what the
\* call returns is what the response to that request alone determines; a
\* call that got no response returns one of the three errors that need none.
C10_CallsAreIsolated ==
    \A c \in Callers :
        /\ net[c].received > 0 =>
              net[c].seen = [verb |-> Verb(call[c].method),
                             url |-> <<client.baseURL>> \o Path(call[c].method, call[c].arg),
                             body |-> call[c].jsonData,
                             contentType |-> ContentType(call[c])]
        /\ Returned(c) =>
              IF net[c].replied
              THEN /\ call[c].err = OutcomeOf(call[c].method, net[c].reply).err
                   /\ call[c].result = OutcomeOf(call[c].method, net[c].reply).result
              ELSE call[c].err.kind \in {"marshal", "create", "perform"}

\* C10 witness: two concurrent calls have both returned, one with a status
\* error and the other with a result.
C10_Witness ==
    \E c, d \in Callers :
        /\ c # d /\ Returned(c) /\ Returned(d)
        /\ call[c].err.kind = "status"
        /\ call[d].err = NoErr /\ call[d].result # <<>>


(***************************************************************************)
(* Paths and verbs.                                                        *)
(***************************************************************************)
PathMethods == {"GetEntityEdge", "GetEpisodes", "DeleteEntityEdge", "DeleteGroup",
                "DeleteEpisode"}

\* the fixed first segment of the path of each path method
Resource(m) ==
    CASE m \in {"GetEntityEdge", "DeleteEntityEdge"} -> "entity-edge"
      [] m = "GetEpisodes" -> "episodes"
      [] m = "DeleteGroup" -> "group"
      [] m = "DeleteEpisode" -> "episode"

\* C11: whenever the server has received the request of a call of
\* GetEntityEdge, GetEpisodes, DeleteEntityEdge, DeleteGroup or
\* DeleteEpisode, the request target has exactly two path segments, the
\* resource name and one segment that unescapes to the identifier passed
\* in; a '/' of the identifier is in it as %2F, and the target has a query
\* only for GetEpisodes, namely last_n.
C11_IdentifierInOneSegment ==
    \A c \in Callers :
        (call[c].method \in PathMethods /\ net[c].received > 0) =>
            LET t == RequestTarget(net[c].seen.url)
                id == call[c].arg.id
            IN /\ Len(t.segments) = 2
               /\ t.segments[1] = <<Resource(call[c].method)>>
               /\ PathUnescape(t.segments[2]) = id
               /\ Len(t.segments[2]) = Len(id)
               /\ \A i \in 1..Len(id) : id[i] = "/" => t.segments[2][i] = "%2F"
               /\ t.hasQuery <=> call[c].method = "GetEpisodes"
               /\ t.hasQuery => t.query = <<"last_n=", ToString(call[c].arg.lastN)>>

\* the server has received the request of a GetEpisodes call whose group
\* identifier holds a '/', and the call has returned
C11_Witness ==
    /\ call[1].method = "GetEpisodes"
    /\ call[1].arg.id = <<"a", "/", "b">>
    /\ net[1].received > 0
    /\ RequestTarget(net[1].seen.url).segments[2] = <<"a", "%2F", "b">>
    /\ Returned(1)

\* The table of endpoints: verb, the fixed segment of the path, whether an
\* identifier segment follows, whether a last_n query follows.
Endpoint(verb, name, hasId, hasLastN) ==
    [verb |-> verb, name |-> name, hasId |-> hasId, hasLastN |-> hasLastN]
EndpointTable(m) ==
    CASE m = "HealthCheck" -> Endpoint("GET", "healthcheck", FALSE, FALSE)
      [] m = "Search" -> Endpoint("POST", "search", FALSE, FALSE)
      [] m = "GetEntityEdge" -> Endpoint("GET", "entity-edge", TRUE, FALSE)
      [] m = "GetEpisodes" -> Endpoint("GET", "episodes", TRUE, TRUE)
      [] m = "GetMemory" -> Endpoint("POST", "get-memory", FALSE, FALSE)
      [] m = "AddMessages" -> Endpoint("POST", "messages", FALSE, FALSE)
      [] m = "AddEntityNode" -> Endpoint("POST", "entity-node", FALSE, FALSE)
      [] m = "DeleteEntityEdge" -> Endpoint("DELETE", "entity-edge", TRUE, FALSE)
      [] m = "DeleteGroup" -> Endpoint("DELETE", "group", TRUE, FALSE)
      [] m = "DeleteEpisode" -> Endpoint("DELETE", "episode", TRUE, FALSE)
      [] m = "Clear" -> Endpoint("POST", "clear", FALSE, FALSE)

\* the key and field by which a request structure is recognised in a body
BodyKey(m) == IF m = "Search" THEN "query" ELSE "group_id"
BodyField(m) == IF m = "Search" THEN "Query" ELSE "GroupID"

\* the request req is the one the table gives for method m with argument a
\* on base URL base
MatchesTable(req, m, a, base) ==
    LET e == EndpointTable(m)
        t == RequestTarget(req.url)
    IN /\ req.verb = e.verb
       /\ Head(req.url) = base
       /\ Len(t.segments) = (IF e.hasId THEN 2 ELSE 1)
       /\ t.segments[1] = <<e.name>>
       /\ e.hasId => PathUnescape(t.segments[2]) = a.id
       /\ t.query = (IF e.hasLastN THEN <<"last_n=", ToString(a.lastN)>> ELSE <<>>)
       /\ IF m \in {"Search", "GetMemory", "AddMessages", "AddEntityNode"}
          THEN /\ Len(req.body) = 1
               /\ req.body[1].t = "obj"
               /\ BodyKey(m) \in DOMAIN req.body[1].v
               /\ req.body[1].v[BodyKey(m)] = JStr(ToValidUTF8(a.body[1][BodyField(m)]))
               /\ req.contentType = <<"application/json">>
          ELSE /\ req.body = <<>>
               /\ req.contentType = <<>>

\* C12: the request a call hands to the transport, and the request the
\* server receives from it, has the verb and the path of the endpoint table
\* for the method called, on the Client's base URL, with the request
\* structure as JSON body for Search, GetMemory, AddMessages and
\* AddEntityNode and without body for the other methods.
C12_VerbAndPathOfTable ==
    \A c \in Callers :
        /\ call[c].sends > 0 =>
              MatchesTable(call[c].req, call[c].method, call[c].arg, client.baseURL)
        /\ net[c].received > 0 =>
              /\ net[c].seen = call[c].req
              /\ MatchesTable(net[c].seen, call[c].method, call[c].arg, client.baseURL)

\* the server has received the DELETE of a DeleteEpisode call, without body
C12_Witness ==
    /\ net[1].received > 0
    /\ call[1].method = "DeleteEpisode"
    /\ net[1].seen.verb = "DELETE"
    /\ net[1].seen.body = <<>>

\* the server has received the POST of a Search call with its JSON body
C12_WitnessBody ==
    /\ net[1].received > 0
    /\ call[1].method = "Search"
    /\ net[1].seen.verb = "POST"
    /\ net[1].seen.body # <<>>

(***************************************************************************)
(* The timeout.                                                            *)
(***************************************************************************)
\* the timeout of the http.Client elapsed during the call of caller c: in
\* the round trip (connecting, waiting for the headers) or while the body
\* of the response was read
TimedOutInRoundTrip(c) == call[c].err.kind = "perform" /\ call[c].err.cause = "timeout"
TimedOutInBody(c) == call[c].hasResp /\ net[c].cut = "timeout"

\* C13: a call during which the timeout elapsed, in the round trip or while
\* the body was read, returns a "failed to perform request" error and a nil
\* result.
C13_TimeoutIsTransportError ==
    \A c \in Callers :
        (Returned(c) /\ (TimedOutInRoundTrip(c) \/ TimedOutInBody(c))) =>
            /\ call[c].err.kind = "perform"
            /\ call[c].result = <<>>

\* the Timeout of the http.Client the Client holds, 0 for none
EffectiveTimeout ==
    IF client.httpClient = NilRef THEN 0 ELSE httpTimeout[client.httpClient]

\* C14 as stated, for the one point where a call can block: on every Client
\* NewClient can produce, a call that has handed its request to the
\* transport returns to its caller, the timeout ending the round trip.
C14_EveryRoundTripEnds == (call[1].pc = "roundtrip") ~> Returned(1)

\* C14: every call that has been entered on a Client whose http.Client has
\* a timeout greater than zero returns to its caller, whatever the server
\* does or fails to do.
C14_CallsWithTimeoutReturn ==
    (call[1].pc = "marshal" /\ EffectiveTimeout > 0) ~> Returned(1)

\* a call whose request reached a server that never answered has returned,
\* ended by the timeout
C14_Witness ==
    /\ Returned(1)
    /\ EffectiveTimeout > 0
    /\ net[1].received > 0
    /\ ~net[1].replied
    /\ call[1].err = Err("perform", 0, <<>>, "timeout")

(***************************************************************************)
(* Decoding.                                                               *)
(***************************************************************************)
\* the whole body of a 2xx response has been read and the call has returned
ReturnedOn2xx(c) ==
    /\ Returned(c)
    /\ net[c].replied
    /\ Is2xx(net[c].reply.status)
    /\ net[c].cut = "none"

ResultMethods == {"AddMessages", "DeleteEntityEdge", "DeleteGroup", "DeleteEpisode", "Clear"}

AFact(uuid, fact, validAt, invalidAt) ==
    [UUID |-> uuid, Name |-> "", Fact |-> fact, ValidAt |-> validAt,
     InvalidAt |-> invalidAt, CreatedAt |-> ZeroTime, ExpiredAt |-> <<>>]

\* What the caller is to get for the bodies that have the shape the method
\* expects, written out field by field: <<v>> for the value v, <<>> for a
\* body of another shape.
Expected(m, body) ==
    CASE m = "HealthCheck" /\ body = HealthBody -> << <<[Status |-> "ok"]>> >>
      [] m \in ResultMethods /\ body = ResultBody ->
           << <<[Message |-> "queued", Success |-> TRUE]>> >>
      [] m = "GetEntityEdge" /\ body = FactBody ->
           << <<AFact("f1", "likes", <<SomeTime>>, <<LaterTime>>)>> >>
      [] m = "Search" /\ body = FactsBody ->
           << <<[Facts |-> << <<AFact("f1", "", <<SomeTime>>, <<>>)>> >>]>> >>
      [] m = "GetMemory" /\ body = FactsBody ->
           << <<[Facts |-> << <<AFact("f1", "", <<SomeTime>>, <<>>)>> >>]>> >>
      [] m = "GetEpisodes" /\ body = EpisodesBody ->
           << << << [UUID |-> "e1", GroupID |-> "", Name |-> "", Content |-> "hello",
                     Source |-> "", SourceDescription |-> "", CreatedAt |-> ZeroTime,
                     ValidAt |-> ZeroTime, Metadata |-> <<>>] >> >> >>
      [] m = "AddEntityNode" /\ body = NodeBody ->
           << <<[UUID |-> "n1", GroupID |-> "", Name |-> "node", Summary |-> "",
                 CreatedAt |-> ZeroTime, Labels |-> << <<"SERVICE">> >>,
                 Metadata |-> <<>>]>> >>
      [] OTHER -> <<>>

\* C15: a call that got a 2xx response whose body has the shape the method
\* expects returns a nil error and the result whose fields hold the values
\* of the keys of the body: Status "ok" for {"status":"ok"}, Success true
\* for {"message":"queued","success":true}, valid_at in ValidAt and
\* invalid_at in InvalidAt, an absent invalid_at as a nil InvalidAt.
C15_FieldsHoldTheirKeys ==
    \A c \in Callers :
        (ReturnedOn2xx(c) /\ Expected(call[c].method, net[c].reply.body) # <<>>) =>
            /\ call[c].err = NoErr
            /\ call[c].result = Expected(call[c].method, net[c].reply.body)[1]

\* GetEntityEdge has returned the fact of a body with both bounds
C15_Witness ==
    /\ ReturnedOn2xx(1)
    /\ call[1].method = "GetEntityEdge"
    /\ net[1].reply.body = FactBody
    /\ call[1].result[1].ValidAt = <<SomeTime>>
    /\ call[1].result[1].InvalidAt = <<LaterTime>>

\* Pairs of a body and the same body with keys added
Extensions == { <<HealthBody, HealthExtraBody>>, <<ResultBody, ResultExtraBody>>,
                <<HealthBody, HealthCaseBody>> }

\* the keys the second body of a pair has and the first has not
AddedKeys(pair) == DOMAIN ParseJSON(pair[2]).json.v \ DOMAIN ParseJSON(pair[1]).json.v

\* the keys of the JSON objects that method m decodes into its result
ResultKeys(m) ==
    IF ResultKind(m).k = "struct"
    THEN {Fields(ResultKind(m).name)[i].key : i \in 1..Len(Fields(ResultKind(m).name))}
    ELSE {}

\* what a call of m returns for a 2xx response with the whole of body
OutcomeFor(m, body) ==
    LET d == DecodeBody(ResultKind(m), Response(200, body, Len(body)), Zero(ResultKind(m)))
    IN [err |-> d.err, result |-> MethodResult(m, d.v, d.err)]

\* caller c got the second body of the pair and what it returns is what the
\* first body would have given
SameAsWithout(c, pair) ==
    (ReturnedOn2xx(c) /\ net[c].reply.body = pair[2]) =>
        /\ call[c].err = OutcomeFor(call[c].method, pair[1]).err
        /\ call[c].result = OutcomeFor(call[c].method, pair[1]).result

\* a body without optional fields decodes, the fields being zero or nil
MissingOptionalIsZero(c) ==
    /\ (ReturnedOn2xx(c) /\ call[c].method = "GetEpisodes"
          /\ net[c].reply.body = EpisodesBody) =>
            /\ call[c].err = NoErr
            /\ call[c].result[1][1].SourceDescription = ""
            /\ call[c].result[1][1].Metadata = <<>>
    /\ (ReturnedOn2xx(c) /\ call[c].method = "Search"
          /\ net[c].reply.body = FactsBody) =>
            /\ call[c].err = NoErr
            /\ call[c].result[1].Facts[1][1].InvalidAt = <<>>
            /\ call[c].result[1].Facts[1][1].ExpiredAt = <<>>

\* C16 as stated: keys added to a 2xx body, whatever keys they are beside
\* the ones of the response type, leave the outcome of the call as it is
\* without them, and a body without optional fields decodes to zero values.
C16_UnknownKeysChangeNothing ==
    \A c \in Callers :
        /\ \A pair \in Extensions : SameAsWithout(c, pair)
        /\ MissingOptionalIsZero(c)

\* C16: keys added to a 2xx body that differ from every key of the response
\* type by more than case leave the outcome of the call as it is without
\* them, and a body without optional fields decodes to zero values.
C16_UnmatchedKeysChangeNothing ==
    \A c \in Callers :
        /\ \A pair \in Extensions :
              (\A k \in AddedKeys(pair) : FoldKey(k) \notin ResultKeys(call[c].method)) =>
                  SameAsWithout(c, pair)
        /\ MissingOptionalIsZero(c)

\* HealthCheck has returned Status "ok" from a body with two more keys
C16_Witness ==
    /\ ReturnedOn2xx(1)
    /\ call[1].method = "HealthCheck"
    /\ net[1].reply.body = HealthExtraBody
    /\ call[1].err = NoErr
    /\ call[1].result = <<[Status |-> "ok"]>>

(***************************************************************************)
(* Round trip of the request types.                                        *)
(***************************************************************************)
\* the request structure of the call of caller c has been serialized
Serialized(c) == call[c].arg.body # <<>> /\ call[c].jsonData # <<>>

\* decoding the JSON made of the request of caller c into a zero value of
\* its type gives the request back, without error
RoundTrips(c) ==
    LET kind == KStruct(RequestType(call[c].method))
    IN Unmarshal(kind, call[c].jsonData[1], Zero(kind)) =
           [v |-> call[c].arg.body[1], ok |-> TRUE]

\* No string of the value v is other than valid UTF-8 and no pointer of it
\* points to a nil slice.
RECURSIVE PlainValue(_, _)
PlainValue(kind, v) ==
    CASE kind.k = "string" -> ToValidUTF8(v) = v
      [] kind.k = "ptr" ->
           v = <<>> \/ (/\ kind.e.k = "slice" => v[1] # <<>>
                        /\ PlainValue(kind.e, v[1]))
      [] kind.k = "slice" ->
           v = <<>> \/ \A i \in 1..Len(v[1]) : PlainValue(kind.e, v[1][i])
      [] kind.k = "struct" ->
           \A i \in 1..Len(Fields(kind.name)) :
               PlainValue(Fields(kind.name)[i].kind, v[Fields(kind.name)[i].name])
      [] OTHER -> TRUE

\* C17 as stated: every request that serializes without error decodes from
\* its JSON to a value equal to it.
C17_RequestsRoundTrip ==
    \A c \in Callers : Serialized(c) => RoundTrips(c)

\* C17: every request that serializes without error, whose strings are
\* valid UTF-8 and in which no pointer points to a nil slice, decodes from
\* its JSON to a value equal to it.
C17_PlainRequestsRoundTrip ==
    \A c \in Callers :
        (Serialized(c) /\ PlainValue(KStruct(RequestType(call[c].method)),
                                     call[c].arg.body[1]))
            => RoundTrips(c)

\* a request with a message whose UUID is set to "" and whose other
\* optional fields are unset has been serialized, the UUID being sent
C17_Witness ==
    /\ Serialized(1)
    /\ call[1].method = "AddMessages"
    /\ call[1].arg.body[1].Messages = << <<EmptyUUIDMessage>> >>
    /\ call[1].jsonData[1].v["messages"].v[1].v["uuid"] = JStr("")
    /\ RoundTrips(1)

(***************************************************************************)
(* Results and their scores.                                               *)
(***************************************************************************)
\* A result sequence and its score sequence: the Go fields and the keys.
ScorePair(results, resultsKey, scores, scoresKey) ==
    [results |-> results, resultsKey |-> resultsKey,
     scores |-> scores, scoresKey |-> scoresKey]

Edges(scores, key) == ScorePair("Edges", "edges", scores, key)
Nodes(scores, key) == ScorePair("Nodes", "nodes", scores, key)
Episodes(scores, key) == ScorePair("Episodes", "episodes", scores, key)

ScorePairs(m) ==
    CASE m \in {"TemporalWindowSearch", "RecentContextSearch"} ->
           { Edges("EdgeScores", "edge_scores"), Nodes("NodeScores", "node_scores"),
             Episodes("EpisodeScores", "episode_scores") }
      [] m = "EntityRelationshipsSearch" ->
           { Edges("EdgeDistances", "edge_distances"),
             Nodes("NodeDistances", "node_distances") }
      [] m = "DiverseResultsSearch" ->
           { Edges("EdgeMMRScores", "edge_mmr_scores"),
             Nodes("NodeMMRScores", "node_mmr_scores"),
             Episodes("EpisodeScores", "episode_scores"),
             ScorePair("Communities", "communities", "CommunityMMRScores",
                       "community_mmr_scores") }
      [] m = "EpisodeContextSearch" ->
           { Episodes("RerankerScores", "reranker_scores"),
             ScorePair("MentionedNodes", "mentioned_nodes", "MentionedNodeScores",
                       "mentioned_node_scores") }
      [] m = "SuccessfulToolsSearch" ->
           { Edges("EdgeMentionCounts", "edge_mention_counts"),
             Nodes("NodeMentionCounts", "node_mention_counts"),
             Episodes("EpisodeScores", "episode_scores") }
      [] m = "EntityByLabelSearch" ->
           { Nodes("NodeScores", "node_scores"), Edges("EdgeScores", "edge_scores") }
      [] OTHER -> {}

\* the array under key in the JSON object obj, <<>> when there is none
WireSeq(obj, key) == IF key \in DOMAIN obj THEN obj[key].v ELSE <<>>
\* the elements of a decoded slice, <<>> for a nil slice
Elements(slice) == IF slice = <<>> THEN <<>> ELSE slice[1]

\* the decoded result res has the results and scores of pair as they stand
\* in the JSON object obj: same length, same order
Aligned(res, obj, pair) ==
    LET results == Elements(res[pair.results])
        scores == Elements(res[pair.scores])
        wireResults == WireSeq(obj, pair.resultsKey)
        wireScores == WireSeq(obj, pair.scoresKey)
    IN /\ Len(results) = Len(wireResults)
       /\ Len(scores) = Len(wireScores)
       /\ \A i \in 1..Len(results) : results[i].UUID = wireResults[i].v["uuid"].v
       /\ \A i \in 1..Len(scores) : scores[i] = wireScores[i].v

\* C18: when an advanced search returns the result decoded from a 2xx body,
\* each result sequence and its score sequence have the length and the
\* order they have in the body, so result i and score i are the pair the
\* server sent at position i, for every i up to the shorter length.
C18_ScoresStayAligned ==
    \A c \in Callers :
        (ReturnedOn2xx(c) /\ call[c].err = NoErr) =>
            \A pair \in ScorePairs(call[c].method) :
                Aligned(call[c].result[1], ParseJSON(net[c].reply.body).json.v, pair)

\* TemporalWindowSearch has returned three edges with scores 40, 90, 10 and
\* two nodes with the one score 70
C18_Witness ==
    /\ ReturnedOn2xx(1)
    /\ call[1].method = "TemporalWindowSearch"
    /\ net[1].reply.body = TemporalBody
    /\ call[1].err = NoErr
    /\ call[1].result[1].EdgeScores = << <<40, 90, 10>> >>
    /\ Len(call[1].result[1].Edges[1]) = 3
    /\ Len(call[1].result[1].Nodes[1]) = 2
    /\ call[1].result[1].NodeScores = << <<70>> >>

(***************************************************************************)
(* Propagation of errors.                                                  *)
(***************************************************************************)
\* The failures met in the call of caller c, step by step.
MarshalFailed(c) ==
    /\ call[c].arg.body # <<>>
    /\ MarshalValue(KStruct(RequestType(call[c].method)), call[c].arg.body[1]).t = "error"
CreateFailed(c) ==
    ~MarshalFailed(c) /\ ~URLParses(<<client.baseURL>> \o Path(call[c].method, call[c].arg))
PerformFailed(c) == call[c].sends > 0 /\ ~call[c].hasResp
\* reading the body of the response ended in an error
ReadFailed(c) == call[c].hasResp /\ net[c].cut # "none"

\* C19: the error a call returns tells of the failure met in it: the
\* serialization, request construction and transport errors of their kinds,
\* and an error met while reading the body, of a 2xx response or of
\* another, as the cause in the error returned.
C19_NoErrorIsDropped ==
    \A c \in Callers :
        Returned(c) =>
            /\ MarshalFailed(c) => call[c].err.kind = "marshal"
            /\ CreateFailed(c) => call[c].err.kind = "create"
            /\ PerformFailed(c) =>
                  call[c].err.kind = "perform" /\ call[c].err.cause # "none"
            /\ ReadFailed(c) => call[c].err.cause = "read"

(***************************************************************************)
(* Malformed base URLs.                                                    *)
(***************************************************************************)
\* NewClient treats every base URL alike: it stores it, and whether it
\* returns depends on the options only.
NewClientTakesAnyURL ==
    \A url \in BaseURLs, opts \in OptionLists :
        LET r == NewClient(url, opts, 1, InitHeap)
        IN /\ r.client.baseURL = url
           /\ r.panicked = NewClient(GoodURL, opts, 1, InitHeap).panicked

Binding(request, response) == [request |-> request, response |-> response]
BindingTable(m) ==
    CASE m = "TemporalWindowSearch" ->
           Binding("TemporalSearchRequest", "TemporalSearchResponse")
      [] m = "EntityRelationshipsSearch" ->
           Binding("EntityRelationshipSearchRequest", "EntityRelationshipSearchResponse")
      [] m = "DiverseResultsSearch" ->
           Binding("DiverseSearchRequest", "DiverseSearchResponse")
      [] m = "EpisodeContextSearch" ->
           Binding("EpisodeContextSearchRequest", "EpisodeContextSearchResponse")
      [] m = "SuccessfulToolsSearch" ->
           Binding("SuccessfulToolsSearchRequest", "SuccessfulToolsSearchResponse")
      [] m = "RecentContextSearch" ->
           Binding("RecentContextSearchRequest", "RecentContextSearchResponse")
      [] m = "EntityByLabelSearch" ->
           Binding("EntityByLabelSearchRequest", "EntityByLabelSearchResponse")

\* the Go field names of a structure
FieldNames(name) == {Fields(name)[i].name : i \in 1..Len(Fields(name))}

\* C21: each of the seven advanced searches hands the transport at most one
\* request, a POST with the JSON of its request structure as body and the
\* JSON content type; a call that returns after a 2xx response read in full
\* and parsed returns a value of its response structure, decoded from the
\* body; a request structure that does not serialize gives the
\* serialization error with nothing sent, a refused round trip the
\* transport error, a non-2xx response the status error with its code; and
\* every error comes with a nil result.
C21_AdvancedSearchesBindDo ==
    \A c \in Callers :
        call[c].method \in AdvancedMethods =>
            LET m == call[c].method
                b == BindingTable(m)
                j == MarshalValue(KStruct(b.request), call[c].arg.body[1])
            IN /\ call[c].sends <= 1
               /\ call[c].sends = 1 =>
                     /\ call[c].req.verb = "POST"
                     /\ call[c].req.body = <<j>>
                     /\ call[c].req.contentType = <<"application/json">>
               /\ Returned(c) =>
                     /\ j.t = "error" =>
                           call[c].err.kind = "marshal" /\ call[c].sends = 0
                     /\ PerformFailed(c) => call[c].err.kind = "perform"
                     /\ (call[c].hasResp /\ ~Is2xx(call[c].resp.status)) =>
                           /\ call[c].err.kind = "status"
                           /\ call[c].err.code = call[c].resp.status
                     /\ (ReturnedOn2xx(c) /\ call[c].err = NoErr) =>
                           /\ DOMAIN call[c].result[1] = FieldNames(b.response)
                           /\ call[c].result[1] =
                                  Unmarshal(KStruct(b.response),
                                            ParseJSON(net[c].reply.body).json,
                                            Zero(KStruct(b.response))).v
                     /\ (ReturnedOn2xx(c) /\ ParseJSON(net[c].reply.body).what # "value") =>
                           call[c].err.kind = "decode"
                     /\ call[c].err # NoErr => call[c].result = <<>>
                     /\ call[c].err = NoErr => ReturnedOn2xx(c)

\* DiverseResultsSearch has returned the response decoded from a 2xx body
\* that it sent one POST for
C21_Witness ==
    /\ ReturnedOn2xx(1)
    /\ call[1].method = "DiverseResultsSearch"
    /\ call[1].req.verb = "POST"
    /\ net[1].received = 1
    /\ net[1].reply.body = DiverseBody
    /\ call[1].err = NoErr
    /\ call[1].result # <<>>

(***************************************************************************)
(* Panics.                                                                 *)
(***************************************************************************)
\* C22: on a Client that NewClient returned, whatever the options, no call
\* of an endpoint method panics: the program has not crashed and no call
\* has ended in a nil dereference.
C22_NoCallPanics ==
    /\ ~crashed
    /\ \A c \in Callers : call[c].pc # "panic"

(***************************************************************************)
(* The order of the steps of do.                                           *)
(***************************************************************************)
\* the place of a position of a call in the run of a method
Rank(pc) ==
    CASE pc = "idle" -> 0
      [] pc = "marshal" -> 1
      [] pc = "newreq" -> 2
      [] pc = "do" -> 3
      [] pc = "roundtrip" -> 4
      [] pc = "status" -> 5
      [] pc = "decode" -> 6
      [] pc = "doret" -> 7
      [] pc = "returned" -> 8
      [] pc = "panic" -> 9

\* what the steps of the call of c have left behind, whichever step failed
FirstFailureEnds(c) ==
    /\ MarshalFailed(c) =>
          /\ call[c].err.kind = "marshal"
          /\ call[c].req = NoRequest
          /\ call[c].sends = 0
    /\ CreateFailed(c) =>
          /\ call[c].err.kind = "create"
          /\ call[c].req = NoRequest
          /\ call[c].sends = 0
    /\ PerformFailed(c) =>
          /\ call[c].err.kind = "perform"
          /\ call[c].dest = Zero(ResultKind(call[c].method))
    /\ (call[c].hasResp /\ StatusFails(call[c].resp.status)) =>
          /\ call[c].err.kind = "status"
          /\ call[c].dest = Zero(ResultKind(call[c].method))
    /\ call[c].req # NoRequest =>
          /\ call[c].req.body = call[c].jsonData
          /\ call[c].req.contentType = ContentType(call[c])

\* a step of the call of c goes forward in the order of do, and the step
\* that sets the error is the last one of do
StepsInOrder(c) ==
    /\ call'[c] # call[c] =>
          \/ Rank(call'[c].pc) > Rank(call[c].pc)
          \/ call[c].pc = "returned" /\ call'[c].pc = "idle"
    /\ (call[c].err = NoErr /\ call'[c].err # NoErr) => call'[c].pc = "doret"
    /\ call[c].pc = "doret" => call'[c].pc \in {"doret", "returned"}
    /\ (call[c].pc \in {"marshal", "newreq", "do", "roundtrip", "status", "decode"}
            /\ call'[c].pc \notin {call[c].pc, "doret", "panic"}) =>
          Rank(call'[c].pc) = Rank(call[c].pc) + 1

\* C23: do runs its steps in the one order serialize, construct request
\* (with the content type), execute, check status, decode; the first step
\* that fails sets the error and do returns with it, no later step being
\* run: a body that does not serialize gives the serialization error also
\* on a base URL that does not parse, no request having been constructed,
\* and after a non-2xx response the destination is as the method declared
\* it, whatever the body of the response.
C23_FirstFailingStepEndsCall ==
    /\ [](\A c \in Callers : Returned(c) => FirstFailureEnds(c))
    /\ [][\A c \in Callers : StepsInOrder(c)]_vars

\* a call with a body that does not serialize, on the base URL that does
\* not parse, has returned the serialization error
C23_Witness ==
    /\ Returned(1)
    /\ client.baseURL = BadURL
    /\ MarshalFailed(1)
    /\ call[1].err.kind = "marshal"
    /\ call[1].req = NoRequest

\* HealthCheck has returned the status error of a 404 response whose body
\* is that of a healthy server, read in full
C23_WitnessStatus ==
    /\ Returned(1)
    /\ call[1].method = "HealthCheck"
    /\ call[1].resp = Response(404, HealthBody, 2)
    /\ call[1].err.kind = "status"
    /\ call[1].result = <<>>

(***************************************************************************)
(* The Content-Type header.                                                *)
(***************************************************************************)
\* the methods that pass nil as body
BodylessMethods ==
    {"HealthCheck", "GetEntityEdge", "GetEpisodes", "DeleteEntityEdge", "DeleteGroup",
     "DeleteEpisode", "Clear"}

\* the request req of a call of method m has the header and a body, or
\* neither, as m has a request structure or not
HeaderIffBody(req, m) ==
    /\ (req.contentType = <<"application/json">>) <=> (req.body # <<>>)
    /\ req.contentType \in {<<>>, <<"application/json">>}
    /\ m \in {"Search", "GetMemory", "AddMessages", "AddEntityNode"} => req.body # <<>>
    /\ m \in BodylessMethods => req.body = <<>>

\* C24: the request a call hands to the transport, and the one the server
\* receives, carries Content-Type: application/json exactly when it has a
\* body: those of Search, GetMemory, AddMessages and AddEntityNode have
\* both, those of HealthCheck, GetEntityEdge, GetEpisodes, the three
\* deleting methods and Clear have neither.
C24_ContentTypeIffBody ==
    \A c \in Callers :
        /\ call[c].sends > 0 => HeaderIffBody(call[c].req, call[c].method)
        /\ net[c].received > 0 => HeaderIffBody(net[c].seen, call[c].method)

\* the server has received the POST of Clear, without body and without
\* content type
C24_Witness ==
    /\ net[1].received > 0
    /\ call[1].method = "Clear"
    /\ net[1].seen.verb = "POST"
    /\ net[1].seen.body = <<>>
    /\ net[1].seen.contentType = <<>>

(***************************************************************************)
(* The kinds of error.                                                     *)
(***************************************************************************)
\* the five formats of client.go:58,66,75,81,86
ErrorKinds == {"marshal", "create", "perform", "status", "decode"}
\* the formats that wrap an underlying error with %w
WrappingKinds == {"marshal", "create", "perform", "decode"}

\* the underlying failures each wrapping kind can carry
CausesOf(kind) ==
    CASE kind = "marshal" -> {"time-range"}
      [] kind = "create" -> {"url-parse"}
      [] kind = "perform" -> {"scheme", "refused", "timeout"}
      [] kind = "decode" -> {"read", "eof", "syntax", "type"}
      [] OTHER -> {"none"}

\* the step in which the call of c failed, "none" when none did
FailedStep(c) ==
    CASE MarshalFailed(c) -> "marshal"
      [] CreateFailed(c) -> "create"
      [] PerformFailed(c) -> "perform"
      [] call[c].hasResp /\ StatusFails(call[c].resp.status) -> "status"
      [] call[c].err.kind = "decode" -> "decode"
      [] OTHER -> "nil"

\* C25: the error a call returns is of one of the five kinds, the kind of
\* the step that failed; an error of the serialization, construction,
\* transport or deserialization kind wraps the failure it stems from (the
\* timeout or the refused connection in a transport error), and a status
\* error wraps nothing.
C25_FiveKindsWithCause ==
    \A c \in Callers :
        Returned(c) =>
            /\ call[c].err.kind = FailedStep(c)
            /\ call[c].err # NoErr =>
                  /\ call[c].err.kind \in ErrorKinds
                  /\ call[c].err.cause \in CausesOf(call[c].err.kind)
                  /\ (call[c].err.kind \in WrappingKinds) <=> (call[c].err.cause # "none")
            /\ call[c].err.kind = "decode" =>
                  call[c].hasResp /\ ~StatusFails(call[c].resp.status)
            /\ (PerformFailed(c) /\ net[c].received > 0) => call[c].err.cause = "timeout"

\* a call has returned the transport error that wraps the timeout
C25_Witness ==
    /\ Returned(1)
    /\ call[1].err = Err("perform", 0, <<>>, "timeout")

(***************************************************************************)
(* The text of an error.                                                   *)
(***************************************************************************)
\* err.Error() as the fmt.Errorf calls of do build it (client.go:58,66,75,
\* 81,86), a sequence of pieces: the fixed text of the format followed by
\* its operands; the message of a wrapped error is one piece, its cause.
Message(err) ==
    CASE err.kind = "marshal" -> <<"failed to marshal request body: ", err.cause>>
      [] err.kind = "create" -> <<"failed to create request: ", err.cause>>
      [] err.kind = "perform" -> <<"failed to perform request: ", err.cause>>
      [] err.kind = "status" ->
           <<"API request failed with status ", ToString(err.code), ": ">> \o err.text
      [] err.kind = "decode" -> <<"failed to decode response: ", err.cause>>
      [] OTHER -> <<>>

\* the pieces of text seq are in the message msg, one after the other
Occurs(seq, msg) ==
    \E k \in 0..(Len(msg) - Len(seq)) : SubSeq(msg, k + 1, k + Len(seq)) = seq

\* C26: the error a call returns when the body of a 2xx response does not
\* decode has in its message the HTTP method and the path of the request,
\* and the part of the body that was read, next to the decoder's message.
C26_DecodeErrorNamesCall ==
    \A c \in Callers :
        (Returned(c) /\ call[c].err.kind = "decode") =>
            LET msg == Message(call[c].err)
            IN /\ Occurs(<<call[c].err.cause>>, msg)
               /\ Occurs(<<call[c].req.verb>>, msg)
               /\ Occurs(Path(call[c].method, call[c].arg), msg)
               /\ Occurs(ReadAll(call[c].resp), msg)

(***************************************************************************)
(* Responses without body.                                                 *)
(***************************************************************************)
\* C27: every method decodes, so a call that got a 2xx response with an
\* empty body, the server having received its request, returns the decode
\* error of the end of input and a nil result, whichever method it is.
C27_EmptyBodyIsDecodeError ==
    /\ \A m \in Methods : NewCall(m, NoArg).dest = Zero(ResultKind(m))
    /\ \A c \in Callers :
          (Returned(c) /\ call[c].hasResp /\ Is2xx(call[c].resp.status)
              /\ call[c].resp.body = EmptyBody) =>
                /\ net[c].received = 1
                /\ call[c].err = Err("decode", 0, <<>>, "eof")
                /\ call[c].result = <<>>

\* DeleteGroup has returned the decode error for a 204 without body
C27_Witness ==
    /\ Returned(1)
    /\ call[1].method = "DeleteGroup"
    /\ call[1].resp = Response(204, EmptyBody, 0)
    /\ net[1].received = 1
    /\ call[1].err.kind = "decode"
    /\ call[1].result = <<>>

(***************************************************************************)
(* Clients that share an http.Client.                                      *)
(***************************************************************************)
\* the timeout a Client works with: that of the http.Client it refers to
TimeoutOf(cl) == IF cl.httpClient = NilRef THEN 0 ELSE httpTimeout[cl.httpClient]

\* C28: once NewClient(url, WithHTTPClient(h), WithTimeout(t)) has
\* returned, the Client holds h itself, the caller's h has the timeout t,
\* and so has every Client built before from the same h, whatever timeout
\* it had when it was built.
C28_TimeoutWrittenThroughReference ==
    \A t \in TimeoutArgs :
        (ctor.n > 0 /\ ~crashed
            /\ ctor.opts = <<WithHTTPClient(CallerRef), WithTimeout(t)>>) =>
                /\ built[ctor.n].httpClient = CallerRef
                /\ httpTimeout[CallerRef] = t
                /\ \A i \in 1..Len(built) :
                      built[i].httpClient = CallerRef => TimeoutOf(built[i]) = t

\* the first Client was built from h when h had the timeout 5, and the
\* second NewClient(url, WithHTTPClient(h), WithTimeout(60)) has given it
\* the timeout 60
C28_Witness ==
    /\ ctor.n = 2
    /\ ~crashed
    /\ ctor.opts = <<WithHTTPClient(CallerRef), WithTimeout(60)>>
    /\ built[1].httpClient = CallerRef
    /\ ctor.before[CallerRef] = 5
    /\ TimeoutOf(built[1]) = 60

(***************************************************************************)
(* Optional fields on the wire.                                            *)
(***************************************************************************)
\* the kinds of the plain values
PlainKinds == {"string", "int", "bool", "float"}

\* The JSON value j has, for the Go value v of the given kind, every plain
\* omitempty field under its key exactly when it is not the zero value,
\* every omitempty pointer field exactly when the pointer is not nil, and
\* then the value itself, whatever it is; so all the way down.
RECURSIVE OmitsOnlyZero(_, _, _)
OmitsOnlyZero(kind, v, j) ==
    CASE kind.k = "struct" ->
           LET fs == Fields(kind.name)
           IN /\ j.t = "obj"
              /\ \A i \in 1..Len(fs) :
                    LET f == fs[i]
                        present == f.key \in DOMAIN j.v
                    IN /\ (f.omitempty /\ f.kind.k \in PlainKinds) =>
                             (present <=> v[f.name] # Zero(f.kind))
                       /\ (f.omitempty /\ f.kind.k = "ptr") =>
                             (present <=> v[f.name] # <<>>)
                       /\ ~f.omitempty => present
                       /\ present => OmitsOnlyZero(f.kind, v[f.name], j.v[f.key])
      [] kind.k = "ptr" ->
           IF v = <<>> THEN j = JNull ELSE OmitsOnlyZero(kind.e, v[1], j)
      [] kind.k = "slice" ->
           IF v = <<>> THEN j = JNull
           ELSE /\ j.t = "arr"
                /\ Len(j.v) = Len(v[1])
                /\ \A i \in 1..Len(v[1]) : OmitsOnlyZero(kind.e, v[1][i], j.v[i])
      [] kind.k = "string" -> j = JStr(v)
      [] kind.k = "int" -> j = JNum(v)
      [] kind.k = "bool" -> j = JBool(v)
      [] OTHER -> TRUE

\* C29: in the body of every request, a plain omitempty field (max_facts,
\* max_results, max_depth, min_mentions, include_tool_calls,
\* diversity_level, recency_window, summary, name, source_description) set
\* to 0, false or "" has no key, as when it was never set, so no body
\* carries an explicit 0, false or "" for these keys; a pointer field set
\* to a pointer to the empty list or the empty string has its key, with []
\* or "" as value, and a nil one has none.
C29_ZeroValuesOmitted ==
    \A c \in Callers :
        call[c].jsonData # <<>> =>
            OmitsOnlyZero(KStruct(RequestType(call[c].method)), call[c].arg.body[1],
                          call[c].jsonData[1])

\* an EpisodeContextSearch with IncludeToolCalls false, MaxResults 0 and
\* AgentTypes pointing to the empty list has been serialized: the body has
\* the query and "agent_types":[] and nothing else
C29_Witness ==
    /\ call[1].method = "EpisodeContextSearch"
    /\ call[1].arg.body[1].IncludeToolCalls = FALSE
    /\ call[1].arg.body[1].MaxResults = 0
    /\ call[1].arg.body[1].AgentTypes = << << <<>> >> >>
    /\ call[1].jsonData = <<JObj([query |-> JStr("q"), agent_types |-> JArr(<<>>)])>>

(***************************************************************************)
(* The wait for ingestion in the basic example.                            *)
(***************************************************************************)
\* the smaller of two numbers
Min(a, b) == IF a < b THEN a ELSE b

\* the last attempt made got no episodes: it failed or its list was empty
Unsuccessful == main.err # NoErr \/ Count(main.episodes) = 0

\* what holds of the loop at every moment
PollingInBounds ==
    /\ main.calls <= MaxAttempts
    /\ main.pc = "call" => main.calls = main.attempt
    /\ main.pc = "loop" => main.calls = main.attempt - 1
    /\ main.slept = PollInterval * (Min(main.attempt, MaxAttempts) - 1)
    /\ (main.pc = "loop" /\ main.attempt > 1) => Unsuccessful
    /\ main.err # NoErr => Count(main.episodes) = 0
    /\ main.pc \in {"after", "fatal", "search"} =>
          /\ call[1].pc = "idle"
          /\ ~Unsuccessful => main.calls = main.attempt
          /\ Unsuccessful => main.calls = MaxAttempts
    /\ main.pc = "search" =>
          /\ ~Unsuccessful
          /\ main.slept = PollInterval * (main.calls - 1)
    /\ main.pc = "fatal" =>
          /\ Unsuccessful
          /\ main.calls = MaxAttempts
          /\ main.slept = PollInterval * (MaxAttempts - 1)

\* the program is past the wait: it has died of the timeout or gone on
WaitOver == main.pc \in {"fatal", "search"}

C30_WitnessFound ==
    /\ main.pc = "search"
    /\ main.calls = 3
    /\ main.slept = 10
    /\ Count(main.episodes) = 1

====
